---- MODULE Spec2Model ----
(***************************************************************************)
(* Client-side data layer of the capsule tracker.                          *)
(*                                                                         *)
(*   SpecStats : the statistics hooks (useFirebaseStats,                   *)
(*               useMonthlyProgress) applied to record snapshots.          *)
(*   SpecHook  : useFirebaseDailyRecords.createRecord with its delayed     *)
(*               verification read and its background retry, against a     *)
(*               backend table with UNIQUE(user_id, date) and the          *)
(*               realtime re-fetch of subscribeToDailyRecords.             *)
(*   SpecStore : the whole record store, as the hook or as                 *)
(*               FirebaseRecordsProvider (impl): createRecord,             *)
(*               updateRecord, deleteRecord, snapshot delivery in reply    *)
(*               order, and sign-out with replies still on their way.      *)
(*   SpecReads : getRecordByDate called at any moment of the store.        *)
(*   SpecTutorial : useTutorial against user_profiles.has_seen_tutorial.   *)
(*   SpecService : SupabaseService.getUserSettings (lazy creation of the  *)
(*               user_settings row) and clearAllUserData.                  *)
(*   SpecReadPaths : the read paths of SupabaseService with failing        *)
(*               queries.                                                  *)
(*   SpecRefetch : re-fetches of the record store: the subscription and    *)
(*               the provider's refreshRecords.                            *)
(*   SpecAuth  : FirebaseAuthProvider: auth-state-change handlers, login,  *)
(*               logout and cross-tab logout, overlapping.                 *)
(*                                                                         *)
(* Time.  An instant is a number of hours since the epoch (UTC).  A date   *)
(* string of a record is a calendar day number d; `new Date(d)` of a       *)
(* date-only string (YYYY-MM-DD, the form under which the backend's        *)
(* .order('date') on the text column sorts by day) is midnight UTC of that *)
(* day, and toDateString() and setDate()/getDate() work on the device's    *)
(* local calendar, which is tz hours ahead of UTC.  Daylight-saving        *)
(* changes are left out.                                                   *)
(* Numbers.  Quotients of JavaScript numbers are kept as exact fractions   *)
(* [num, den]; floating-point rounding is left out.                        *)
(***************************************************************************)
EXTENDS Integers, Sequences, FiniteSets, TLC

VARIABLES
  \* ---- device clock
  now,            \* the instant `new Date()` returns
  tz,             \* offset of the device's local time from UTC, in hours
  \* ---- useFirebaseAuth
  user,           \* the signed-in user, or NoUser
  \* ---- useFirebaseDailyRecords state (part_000:9-12)
  records,        \* in-memory snapshot: sequence of rows, as delivered
  loading,
  error,
  syncStatus,
  \* ---- useFirebaseStats / useMonthlyProgress state
  stats,
  statsFresh,     \* the [records] effect of useFirebaseStats has run
  progress,
  progressFresh,  \* the [records] effect of useMonthlyProgress has run
  \* ---- backend and operations in flight
  db,             \* rows of daily_records
  nextId,         \* next id the backend generates
  calls,          \* createRecord invocations: call id -> call state
  toFetch,        \* re-fetches due (initial fetch, change events) not yet sent
  fetches,        \* results of getDailyRecords on their way to the callback
  \* ---- the record store's other operations
  impl,           \* "hook" (useFirebaseDailyRecords) or "provider"
                  \* (FirebaseRecordsProvider)
  ops,            \* updateRecord / deleteRecord / provider createRecord
                  \* invocations: op id -> op state
  lastRead,       \* the latest getRecordByDate invocation and its result
  \* ---- useTutorial state and the user_profiles row
  showTutorial,
  tutorialLoading,
  hasSeenTutorial,  \* user_profiles.has_seen_tutorial of the user: "true",
                    \* "false", or "norow" when the user has no profile row
  tutorialOps,      \* status checks, completions and resets in flight
  tutorialDone,     \* completeTutorial has returned and no reset since
  \* ---- SupabaseService called directly: user_settings and bulk deletion
  userSettings,     \* rows of user_settings of the user (user_id is the
                    \* primary key)
  settingsCalls,    \* getUserSettings invocations: call id -> call state
  clearOp,          \* the clearAllUserData invocation
  readPath,         \* the latest call of a single-query read path
  \* ---- FirebaseAuthProvider state (part_002:26-30); its `user` is the
  \* variable user above
  userProfile,      \* <<profile>> or << >> for null
  isAuthenticated,
  authLoading,      \* the provider's `loading`
  authError,        \* the provider's `error`
  authOps           \* auth-state-change handlers, logins and logouts in
                    \* flight

clockVars == <<now, tz, user>>
storeVars == <<records, loading, error, syncStatus>>
statsVars == <<stats, statsFresh, progress, progressFresh>>
backendVars == <<db, nextId, calls, toFetch, fetches>>
opVars == <<impl, ops, lastRead>>
tutorialVars == <<showTutorial, tutorialLoading, hasSeenTutorial, tutorialOps,
                  tutorialDone>>
serviceVars == <<userSettings, settingsCalls, clearOp, readPath>>
authVars == <<userProfile, isAuthenticated, authLoading, authError, authOps>>
vars == <<now, tz, user, records, loading, error, syncStatus, stats, statsFresh,
          progress, progressFresh, db, nextId, calls, toFetch, fetches,
          impl, ops, lastRead, showTutorial, tutorialLoading,
          hasSeenTutorial, tutorialOps, tutorialDone, userSettings,
          settingsCalls, clearOp, readPath, userProfile, isAuthenticated,
          authLoading, authError, authOps>>

----------------------------------------------------------------------------
(* Bounds *)

\* the device's current local calendar day (days since the epoch)
Today == 40
\* oldest record date considered is Today - MaxBack
MaxBack == 32
\* latest record date considered is Today + MaxAhead
MaxAhead == 2
\* number of createRecord invocations
MaxCalls == 1
\* getDailyRecords requests in flight at once
MaxFetches == 2
\* number of updateRecord / deleteRecord / provider createRecord invocations
MaxOps == 1
\* number of useTutorial operations (status checks, completions, resets)
MaxTutorialOps == 3
\* number of getUserSettings invocations
MaxSettingsCalls == 2
\* number of auth-state-change events, logins and logouts
MaxAuthOps == 2

\* device time zones: west of UTC, UTC, east of UTC
TZOffsets == {-3, 0, 2}
\* local hours of the day at which the hooks run
LocalHours == {0, 10, 22}

Users == {"u1"}
TheUser == "u1"
NoUser == "none"

\* dates of the records created through createRecord
HookDates == {Today - 1, Today}

----------------------------------------------------------------------------
(* Dates *)

\* new Date('YYYY-MM-DD').getTime(): midnight UTC of day d
ParseDate(d) == d * 24

\* Date.prototype.toDateString(): the local calendar day of instant t
ToDateString(t, zone) == (t + zone) \div 24

\* d.setDate(d.getDate() - i): i local calendar days back, same local time
SetDateMinus(t, i) == t - 24 * i

\* the instant at which the local clock shows day d, hour h
LocalInstant(d, h, zone) == d * 24 + h - zone

----------------------------------------------------------------------------
(* Array helpers *)

RECURSIVE FilterCompleted(_)
\* records.filter(r => r.completed)
FilterCompleted(s) ==
  IF s = << >> THEN << >>
  ELSE IF Head(s).completed THEN <<Head(s)>> \o FilterCompleted(Tail(s))
       ELSE FilterCompleted(Tail(s))

RECURSIVE SumCapsules(_)
\* completedRecords.reduce((sum, r) => sum + r.capsules, 0)
SumCapsules(s) ==
  IF s = << >> THEN 0 ELSE Head(s).capsules + SumCapsules(Tail(s))

RECURSIVE InsertDesc(_, _)
\* place r in a sequence sorted by descending getTime()
InsertDesc(r, s) ==
  IF s = << >> THEN <<r>>
  ELSE IF ParseDate(r.date) >= ParseDate(Head(s).date) THEN <<r>> \o s
       ELSE <<Head(s)>> \o InsertDesc(r, Tail(s))

RECURSIVE SortDesc(_)
\* .sort((a, b) => new Date(b.date).getTime() - new Date(a.date).getTime())
SortDesc(s) ==
  IF s = << >> THEN << >> ELSE InsertDesc(Head(s), SortDesc(Tail(s)))

----------------------------------------------------------------------------
(* Statistics: useFirebaseStats.calculateStats, useMonthlyProgress *)

\* thirtyDaysAgo.setDate(thirtyDaysAgo.getDate() - 30)
WindowDays == 30
\* (completedLast30Days / 30) * 100
RateDivisor == 30
\* totalDays: 30 of useMonthlyProgress
MonthlyTotalDays == 30

\* a quotient n / d of two JavaScript numbers, kept exact
Ratio(n, d) == [num |-> n, den |-> d]

RECURSIVE StreakLoop(_, _, _, _)
\* for (i = 0; i < sortedRecords.length; i++) { ... currentStreak++ / break }
\* i is the zero-based loop index; the result is the count from i onwards
StreakLoop(sorted, i, t, zone) ==
  IF i >= Len(sorted) THEN 0
  ELSE LET recordDate == ParseDate(sorted[i + 1].date)
           expectedDate == SetDateMinus(t, i)
       IN IF ToDateString(recordDate, zone) = ToDateString(expectedDate, zone)
          THEN 1 + StreakLoop(sorted, i + 1, t, zone)
          ELSE 0

\* let currentStreak = 0; sort; loop
CurrentStreak(recs, t, zone) ==
  StreakLoop(SortDesc(FilterCompleted(recs)), 0, t, zone)

RECURSIVE FilterSince(_, _)
\* records.filter(r => new Date(r.date) >= thirtyDaysAgo)
FilterSince(s, since) ==
  IF s = << >> THEN << >>
  ELSE IF ParseDate(Head(s).date) >= since
       THEN <<Head(s)>> \o FilterSince(Tail(s), since)
       ELSE FilterSince(Tail(s), since)

\* last30DaysRecords.filter(r => r.completed).length
CompletedLast30Days(recs, t) ==
  Len(FilterCompleted(FilterSince(recs, SetDateMinus(t, WindowDays))))

\* faulty variant: the division without the totalDays > 0 guard
AverageCapsules_NoGuard(totalCapsules, totalDays) ==
  Ratio(totalCapsules, totalDays)

\* totalDays > 0 ? totalCapsules / totalDays : 0
AverageCapsules(totalCapsules, totalDays) ==
  IF totalDays > 0 THEN Ratio(totalCapsules, totalDays) ELSE Ratio(0, 1)

\* the object calculateStats hands to setStats
calculateStats(recs, t, zone) ==
  LET completedRecords == FilterCompleted(recs)
      totalDays == Len(completedRecords)
      totalCapsules == SumCapsules(completedRecords)
  IN [ totalDays |-> totalDays,
       currentStreak |-> CurrentStreak(recs, t, zone),
       averageCapsules |-> AverageCapsules(totalCapsules, totalDays),
       completionRate |-> Ratio(CompletedLast30Days(recs, t) * 100, RateDivisor),
       totalCapsules |-> totalCapsules ]

\* the object calculateMonthlyProgress hands to setProgress
calculateMonthlyProgress(recs, t) ==
  LET completedDays == CompletedLast30Days(recs, t)
  IN [ completionRate |-> Ratio(completedDays * 100, RateDivisor),
       completedDays |-> completedDays,
       totalDays |-> MonthlyTotalDays ]

\* useState initial values
InitialStats ==
  [ totalDays |-> 0, currentStreak |-> 0, averageCapsules |-> Ratio(0, 1),
    completionRate |-> Ratio(0, 1), totalCapsules |-> 0 ]

InitialProgress ==
  [ completionRate |-> Ratio(0, 1), completedDays |-> 0,
    totalDays |-> MonthlyTotalDays ]

----------------------------------------------------------------------------
(* Record snapshots the realtime feed can deliver to the statistics hooks *)

\* a row of daily_records
Row(id, owner, d, capsules, completed) ==
  [ id |-> id, user_id |-> owner, date |-> d, capsules |-> capsules,
    completed |-> completed ]

\* capsule counts of the generated rows: 1, 2 or 3 by date
CapsulesOn(d) == 1 + (d % 3)

\* completed rows for the days lo..hi, newest first (.order('date', desc))
RunDesc(lo, hi) ==
  [ i \in 1..(hi - lo + 1) |->
      Row(hi - i + 1, TheUser, hi - i + 1, CapsulesOn(hi - i + 1), TRUE) ]

RECURSIVE DropDate(_, _)
DropDate(s, d) ==
  IF s = << >> THEN << >>
  ELSE IF Head(s).date = d THEN Tail(s) ELSE <<Head(s)>> \o DropDate(Tail(s), d)

ModKinds == {"none", "remove", "incomplete"}

\* one change to the row dated d of a run
ApplyMod(s, kind, d) ==
  CASE kind = "none" -> s
    [] kind = "remove" -> DropDate(s, d)
    [] kind = "incomplete" ->
         [ i \in DOMAIN s |->
             IF s[i].date = d THEN [s[i] EXCEPT !.completed = FALSE] ELSE s[i] ]

\* dates of a run lo..hi that a change may touch
ModDates(lo, hi) == { d \in (hi - 4)..hi : d >= lo } \cup { d \in {lo} : lo <= hi }

DateLo == Today - MaxBack
DateHi == Today + MaxAhead

----------------------------------------------------------------------------
(* SpecStats *)

\* a createRecord invocation that has not been made yet
IdleCall ==
  [ pc |-> "idle",          \* where the invocation stands
    data |-> "none",        \* recordData
    response |-> "none",    \* reply of the backend on its way to the client
    first |-> "none",       \* reply to the initial creation request
    verify |-> "none",      \* how the verification read ended
    retry |-> "none",       \* reply to the retry creation request
    inserts |-> 0,          \* creation requests sent
    result |-> "pending",   \* what the caller's promise settled to
    err |-> "none",         \* the error the caller received
    log |-> "none",         \* console line of the verification step
    alerted |-> FALSE ]     \* the 'Sync Error' alert was shown

\* the subscription callback of useFirebaseDailyRecords
OnRecords(newRecords) ==
  /\ records' = newRecords
  /\ loading' = FALSE
  /\ error' = "null"
  /\ syncStatus' = "synced"

BackendIdle ==
  /\ db = {}
  /\ nextId = 1
  /\ calls = [c \in 1..MaxCalls |-> IdleCall]
  /\ toFetch = 0
  /\ fetches = << >>

\* an updateRecord / deleteRecord / provider createRecord invocation that
\* has not been made yet
IdleOp ==
  [ kind |-> "none",        \* "create", "update" or "delete"
    pc |-> "idle",          \* where the invocation stands
    caller |-> "none",      \* `user` when the operation was called
    target |-> "none",      \* recordId of updateRecord / deleteRecord
    data |-> "none",        \* recordData of createRecord, updates of
                            \* updateRecord
    response |-> "none",    \* reply of the backend on its way to the client
    sent |-> 0,             \* backend requests sent
    result |-> "pending",   \* what the caller's promise settled to
    err |-> "none" ]        \* the error the caller received

\* no getRecordByDate invocation yet
NoRead ==
  [ date |-> 0,             \* the date asked for
    after |-> 0,            \* the createRecord call it directly follows
    caller |-> "none",      \* `user` when it was called
    mem |-> << >>,          \* what records.find returned: <<row>> or << >>
    lookup |-> "none",      \* how the backend lookup ended, "none": not sent
    row |-> << >>,          \* what the backend lookup returned
    outcome |-> "none",     \* "returned" or "rejected"
    value |-> << >> ]       \* the value returned: <<row>>, or << >> for null

OpsIdle ==
  /\ impl = "hook"
  /\ ops = [o \in 1..MaxOps |-> IdleOp]
  /\ lastRead = NoRead

\* a useTutorial operation that has not been started yet
IdleTutorialOp ==
  [ kind |-> "none",        \* "check", "complete" or "reset"
    pc |-> "idle",
    reply |-> "none",       \* what the backend call returned or threw
    read |-> "none",        \* what the status query met: "row", "norow"
                            \* (PGRST116) or "error"
    fresh |-> FALSE,        \* the status check of a fresh session load
    alone |-> FALSE,        \* called while no other operation was in flight
    after |-> << >> ]       \* <<showTutorial, has_seen_tutorial>> when
                            \* completeTutorial returned

TutorialIdle ==
  /\ showTutorial = FALSE
  /\ tutorialLoading = TRUE
  /\ hasSeenTutorial = "false"
  /\ tutorialOps = [k \in 1..MaxTutorialOps |-> IdleTutorialOp]
  /\ tutorialDone = FALSE

\* a getUserSettings invocation that has not been started yet
IdleSettingsCall ==
  [ pc |-> "idle",          \* "select", "selected", "insert", "inserted",
                            \* "done"
    reply |-> "none",       \* what the query in flight returned: "row",
                            \* "norow" (PGRST116), "ok", "duplicate", "error"
    found |-> << >>,        \* the row the select returned
    first |-> FALSE,        \* the select met no row
    failed |-> FALSE,       \* a query of the call failed at the backend
    result |-> "pending",   \* "resolved" or "rejected"
    value |-> << >> ]       \* <<settings>> the call resolved with

\* clearAllUserData not called yet
IdleClear ==
  [ pc |-> "idle",          \* "profiles", "settings", "records", "done"
    failed |-> {},          \* the tables whose deletion failed
    result |-> "pending" ]  \* "resolved" or "rejected"

\* no single-query read path called yet
NoReadPath ==
  [ fn |-> "none",          \* the SupabaseService method
    ok |-> TRUE,            \* the backend answered the query
    outcome |-> "none",     \* "returned" or "threw"
    value |-> "none" ]      \* what it returned

ServiceIdle ==
  /\ userSettings = << >>
  /\ settingsCalls = [c \in 1..MaxSettingsCalls |-> IdleSettingsCall]
  /\ clearOp = IdleClear
  /\ readPath = NoReadPath

\* an auth-state-change event, login or logout that has not happened yet
IdleAuthOp ==
  [ kind |-> "none",        \* "signedIn", "signedOut", "login", "logout"
    pc |-> "idle",
    reply |-> "none",       \* what the awaited call returned or threw
    failed |-> FALSE ]      \* an awaited step of the operation failed

\* the provider as constructed (part_002:26-30), for the session `user`
AuthIdle ==
  /\ userProfile = << >>
  /\ isAuthenticated = (user # NoUser)
  /\ authLoading = TRUE
  /\ authError = "null"
  /\ authOps = [a \in 1..MaxAuthOps |-> IdleAuthOp]

\* the snapshots the statistics are computed over: a run of completed days
\* lo..hi ending near today, with at most one row changed or missing
StatsSnapshots ==
  UNION { UNION { { ApplyMod(RunDesc(lo, hi), kind, d) :
                      d \in (IF kind = "none" THEN {lo} ELSE ModDates(lo, hi)) } :
                  lo \in DateLo..(hi + 1) } :
          hi \in (Today - 2)..DateHi, kind \in ModKinds }

\* the hook holds a delivered snapshot; neither [records] effect has run yet
StatsInit ==
  /\ tz \in TZOffsets
  /\ \E h \in LocalHours : now = LocalInstant(Today, h, tz)
  /\ user = TheUser
  /\ records \in StatsSnapshots
  /\ loading = FALSE
  /\ error = "null"
  /\ syncStatus = "synced"
  /\ stats = InitialStats
  /\ statsFresh = FALSE
  /\ progress = InitialProgress
  /\ progressFresh = FALSE
  /\ BackendIdle
  /\ OpsIdle
  /\ TutorialIdle
  /\ ServiceIdle
  /\ AuthIdle

\* useEffect(() => { calculateStats(); }, [records])
CalculateStats ==
  /\ ~statsFresh
  /\ stats' = calculateStats(records, now, tz)
  /\ statsFresh' = TRUE
  /\ UNCHANGED <<progress, progressFresh>>
  /\ UNCHANGED clockVars
  /\ UNCHANGED opVars
  /\ UNCHANGED tutorialVars
  /\ UNCHANGED serviceVars
  /\ UNCHANGED authVars
  /\ UNCHANGED storeVars
  /\ UNCHANGED backendVars

\* useEffect(() => { calculateMonthlyProgress(); }, [records])
CalculateMonthlyProgress ==
  /\ ~progressFresh
  /\ progress' = calculateMonthlyProgress(records, now)
  /\ progressFresh' = TRUE
  /\ UNCHANGED <<stats, statsFresh>>
  /\ UNCHANGED clockVars
  /\ UNCHANGED opVars
  /\ UNCHANGED tutorialVars
  /\ UNCHANGED serviceVars
  /\ UNCHANGED authVars
  /\ UNCHANGED storeVars
  /\ UNCHANGED backendVars

StatsNext == CalculateStats \/ CalculateMonthlyProgress

SpecStats == StatsInit /\ [][StatsNext]_vars

----------------------------------------------------------------------------
(* Properties of the statistics (SpecStats) *)

\* the device's local calendar day
LocalToday == ToDateString(now, tz)

\* the dates that have a completed record in the in-memory collection
CompletedDates ==
  { records[i].date : i \in { j \in DOMAIN records : records[j].completed } }

\* the completed records of the in-memory collection
CompletedRows == { records[i] : i \in { j \in DOMAIN records : records[j].completed } }

RECURSIVE SetSum(_)
SetSum(S) ==
  IF S = {} THEN 0
  ELSE LET r == CHOOSE x \in S : TRUE IN r.capsules + SetSum(S \ {r})

\* number of consecutive calendar days ending today that are in D
ConsecutiveDaysEndingToday(D) ==
  CHOOSE k \in 0..Cardinality(D) :
    /\ \A j \in 0..(k - 1) : (LocalToday - j) \in D
    /\ (LocalToday - k) \notin D

\* C1: when the completed records are exactly those of the n consecutive
\* calendar dates today, today-1, ..., today-(n-1), calculateStats reports
\* currentStreak = n
C1_StreakOfRunEndingToday ==
  statsFresh =>
    LET n == Cardinality(CompletedDates)
    IN (CompletedDates = (LocalToday - n + 1)..LocalToday)
         => stats.currentStreak = n

\* C2: when no completed record is dated today, calculateStats reports
\* currentStreak = 0, whatever other completed records exist
C2_NoRecordTodayStreakZero ==
  (statsFresh /\ LocalToday \notin CompletedDates) => stats.currentStreak = 0

\* C3: currentStreak is the number of consecutive calendar days, ending
\* today, that each have a completed record
C3_StreakIsConsecutiveDays ==
  statsFresh => stats.currentStreak = ConsecutiveDaysEndingToday(CompletedDates)

\* completed records dated within the last `days` calendar days up to today
CompletedInWindow(days) ==
  Cardinality({ d \in CompletedDates : LocalToday - days <= d /\ d <= LocalToday })

\* a fraction equals n / d
RatioIs(q, n, d) == q.den # 0 /\ d # 0 /\ q.num * d = n * q.den

\* C4: completionRate of both hooks is (completed records dated within the
\* trailing 30-day window ending today) * 100 / 30; the window may be read
\* as the 30 days today-29..today or as today-30..today
C4_CompletionRateOverWindow ==
  /\ statsFresh =>
       \/ RatioIs(stats.completionRate, CompletedInWindow(29) * 100, 30)
       \/ RatioIs(stats.completionRate, CompletedInWindow(30) * 100, 30)
  /\ progressFresh =>
       \/ RatioIs(progress.completionRate, CompletedInWindow(29) * 100, 30)
       \/ RatioIs(progress.completionRate, CompletedInWindow(30) * 100, 30)

\* C5: totalDays counts the completed records, totalCapsules sums their
\* capsules, and averageCapsules is 0 when totalDays = 0 and
\* totalCapsules / totalDays otherwise
C5_AverageCapsules ==
  statsFresh =>
    /\ stats.totalDays = Cardinality(CompletedRows)
    /\ stats.totalCapsules = SetSum(CompletedRows)
    /\ IF Cardinality(CompletedRows) = 0
       THEN RatioIs(stats.averageCapsules, 0, 1)
       ELSE RatioIs(stats.averageCapsules, SetSum(CompletedRows),
                    Cardinality(CompletedRows))

\* a snapshot with a record that is not completed, several completed ones,
\* and a mean that is not a whole number
C5_Witness ==
  /\ statsFresh
  /\ \E i \in DOMAIN records : ~records[i].completed
  /\ stats.totalDays >= 2
  /\ stats.totalCapsules % stats.totalDays # 0
  /\ stats.totalDays < Len(records)

----------------------------------------------------------------------------
(* Backend: table daily_records and SupabaseService *)

\* UNIQUE(user_id, date): the rows of (u, d)
RowsOf(rows, u, d) == { r \in rows : r.user_id = u /\ r.date = d }

\* faulty variant: a table without the UNIQUE(user_id, date) constraint
ViolatesUnique_Never(rows, u, d) == FALSE

\* the constraint refuses an insert when a row of (u, d) exists
ViolatesUnique(rows, u, d) == RowsOf(rows, u, d) # {}

RECURSIVE OrderByDateDesc(_)
\* .eq('user_id', userId).order('date', { ascending: false })
OrderByDateDesc(rows) ==
  IF rows = {} THEN << >>
  ELSE LET top == CHOOSE r \in rows : \A q \in rows : q.date <= r.date
       IN <<top>> \o OrderByDateDesc(rows \ {top})

\* getDailyRecords: the rows on success, [] when the query fails
getDailyRecords(rows, u, ok) ==
  IF ok THEN OrderByDateDesc({ r \in rows : r.user_id = u }) ELSE << >>

\* getDailyRecordByDate: the row, null when there is none (PGRST116),
\* and the error is thrown when the query fails
getDailyRecordByDate(rows, u, d, ok) ==
  IF ~ok THEN "error"
  ELSE IF RowsOf(rows, u, d) = {} THEN "absent" ELSE "found"

\* what a creation request can meet at the backend:
\*   ok      - the row is inserted and its id returned
\*   unique  - the constraint refuses the insert
\*   network - the request never reaches the table
\*   lost    - the row is inserted but the reply never reaches the client
InsertOutcomes == {"ok", "unique", "network", "lost"}

\* the reply createDailyRecord gets for an outcome
ReplyOf(outcome) == IF outcome = "lost" THEN "network" ELSE outcome

\* a getDailyRecords result on its way to the callback, with three history
\* marks: live   - the subscription that asked for it is still subscribed
\*        late   - a snapshot fetched after it has already been delivered
\*        failed - the query failed and getDailyRecords answered []
Snapshot(rows) ==
  [rows |-> rows, live |-> TRUE, late |-> FALSE, failed |-> FALSE]

\* change events the channel of the signed-in user receives for a change
\* of a row of user u (filter user_id=eq.userId)
ChangeEvents(u) == IF user # NoUser /\ u = user THEN 1 ELSE 0

----------------------------------------------------------------------------
(* getRecordByDate *)

\* records.find(r => r.date === date): <<the first match>>, or << >>
FindByDate(recs, d) ==
  IF \E i \in DOMAIN recs : recs[i].date = d
  THEN << recs[CHOOSE i \in DOMAIN recs :
                /\ recs[i].date = d
                /\ \A j \in 1..(i - 1) : recs[j].date # d] >>
  ELSE << >>

\* faulty variant: getRecordByDate without its try/catch
ReadResult_NoCatch(u, mem, status, row) ==
  IF u = NoUser THEN [outcome |-> "returned", value |-> << >>]
  ELSE IF mem # << >> THEN [outcome |-> "returned", value |-> mem]
  ELSE IF status = "error" THEN [outcome |-> "rejected", value |-> << >>]
  ELSE [outcome |-> "returned", value |-> row]

\* what getRecordByDate settles to, given what records.find and the backend
\* lookup gave
ReadResult(u, mem, status, row) ==
  IF u = NoUser THEN [outcome |-> "returned", value |-> << >>]
  ELSE IF mem # << >> THEN [outcome |-> "returned", value |-> mem]
  ELSE IF status = "error" THEN [outcome |-> "returned", value |-> << >>]
  ELSE [outcome |-> "returned", value |-> row]

\* getRecordByDate(d) run in the current state; `after` is the createRecord
\* call whose caller runs it as its next statement (0: none)
Read(after, d, ok) ==
  LET mem == FindByDate(records, d)
      sent == user # NoUser /\ mem = << >>
      status == IF sent THEN getDailyRecordByDate(db, user, d, ok)
                ELSE "none"
      row == IF status = "found"
             THEN << CHOOSE r \in RowsOf(db, user, d) : TRUE >>
             ELSE << >>
      res == ReadResult(user, mem, status, row)
  IN [ date |-> d, after |-> after, caller |-> user, mem |-> mem,
       lookup |-> status, row |-> row, outcome |-> res.outcome,
       value |-> res.value ]

----------------------------------------------------------------------------
(* useFirebaseDailyRecords.createRecord *)

\* faulty variant: the catch block leaves the caller waiting for the retry
CatchBlock_AwaitsRetry(call, e) ==
  [call EXCEPT !.pc = "retryWait", !.response = "none"]

\* catch (error) of createRecord: schedule the retry, rethrow to the caller
CatchBlock(call, e) ==
  [call EXCEPT !.pc = "retryWait", !.result = "rejected", !.err = e,
               !.response = "none"]

\* faulty variant: a failed retry schedules another retry
RetryFailed_Reschedules(call) ==
  [call EXCEPT !.pc = "retryWait", !.retry = call.response, !.alerted = TRUE,
               !.response = "none"]

\* the retry's own catch: no further attempt
RetryFailed(call) ==
  [call EXCEPT !.pc = "done", !.retry = call.response, !.alerted = TRUE,
               !.response = "none"]

\* the retry's success path
RetrySucceeded(call) ==
  [call EXCEPT !.pc = "done", !.retry = "ok", !.response = "none"]

\* createRecord is called: setSyncStatus('syncing'), creation request sent
CallCreateRecord(c) ==
  /\ calls[c].pc = "idle"
  /\ \A b \in 1..(c - 1) : calls[b].pc # "idle"
  /\ \E d \in HookDates, done \in BOOLEAN :
       IF user = NoUser
       THEN /\ calls' = [calls EXCEPT ![c] =
                 [@ EXCEPT !.pc = "done", !.result = "rejected",
                           !.err = "No authenticated user"]]
            /\ UNCHANGED syncStatus
       ELSE /\ calls' = [calls EXCEPT ![c] =
                 [@ EXCEPT !.pc = "creating", !.inserts = 1,
                           !.data = [user_id |-> user, date |-> d,
                                     capsules |-> CapsulesOn(d),
                                     completed |-> done]]]
            /\ syncStatus' = "syncing"
  /\ UNCHANGED <<records, loading, error>>
  /\ UNCHANGED <<db, nextId, toFetch, fetches>>
  /\ UNCHANGED clockVars
  /\ UNCHANGED opVars
  /\ UNCHANGED tutorialVars
  /\ UNCHANGED serviceVars
  /\ UNCHANGED authVars
  /\ UNCHANGED statsVars

\* the backend handles a creation request (initial or retry)
BackendInsert(c) ==
  /\ calls[c].pc \in {"creating", "retrying"}
  /\ \E outcome \in InsertOutcomes :
       LET d == calls[c].data.date
           u == calls[c].data.user_id
           dup == ViolatesUnique(db, u, d)
           applied == outcome \in {"ok", "lost"}
       IN /\ (outcome = "unique") <=> dup
          /\ calls' = [calls EXCEPT ![c] =
               [@ EXCEPT !.pc = IF @ = "creating" THEN "createReplied"
                                ELSE "retryReplied",
                         !.response = ReplyOf(outcome)]]
          /\ IF applied
             THEN /\ db' = db \cup { Row(nextId, u, d, calls[c].data.capsules,
                                         calls[c].data.completed) }
                  /\ nextId' = nextId + 1
                  /\ toFetch' = toFetch + ChangeEvents(u)
             ELSE UNCHANGED <<db, nextId, toFetch>>
  /\ UNCHANGED fetches
  /\ UNCHANGED storeVars
  /\ UNCHANGED clockVars
  /\ UNCHANGED opVars
  /\ UNCHANGED tutorialVars
  /\ UNCHANGED serviceVars
  /\ UNCHANGED authVars
  /\ UNCHANGED statsVars

\* the reply to the initial creation request reaches createRecord
CreateResumes(c) ==
  /\ calls[c].pc = "createReplied"
  /\ IF calls[c].response = "ok"
     THEN /\ syncStatus' = "synced"
          /\ calls' = [calls EXCEPT ![c] =
               [@ EXCEPT !.pc = "verifyWait", !.first = "ok",
                         !.response = "none"]]
     ELSE /\ syncStatus' = "error"
          /\ calls' = [calls EXCEPT ![c] =
               CatchBlock([@ EXCEPT !.first = calls[c].response],
                          calls[c].response)]
  /\ UNCHANGED <<records, loading, error>>
  /\ UNCHANGED <<db, nextId, toFetch, fetches>>
  /\ UNCHANGED clockVars
  /\ UNCHANGED opVars
  /\ UNCHANGED tutorialVars
  /\ UNCHANGED serviceVars
  /\ UNCHANGED authVars
  /\ UNCHANGED statsVars

\* the 1000 ms delay ends, getDailyRecordByDate runs and its reply arrives
VerifyCompletes(c) ==
  /\ calls[c].pc = "verifyWait"
  /\ \E ok \in BOOLEAN :
       LET saved == getDailyRecordByDate(db, calls[c].data.user_id,
                                         calls[c].data.date, ok)
       IN IF saved = "error"
          THEN /\ syncStatus' = "error"
               /\ calls' = [calls EXCEPT ![c] =
                    CatchBlock([@ EXCEPT !.verify = "error"], "lookup")]
               /\ UNCHANGED lastRead
          ELSE /\ UNCHANGED syncStatus
               /\ calls' = [calls EXCEPT ![c] =
                    [@ EXCEPT !.pc = "done", !.verify = saved,
                              !.result = "resolved",
                              !.log = IF saved = "found" THEN "validated"
                                      ELSE "warning"]]
               \* the caller resumes; its next statement may be
               \* getRecordByDate(recordData.date)
               /\ \E follows, okRead \in BOOLEAN :
                    lastRead' = IF follows
                                THEN Read(c, calls[c].data.date, okRead)
                                ELSE lastRead
  /\ UNCHANGED <<records, loading, error>>
  /\ UNCHANGED <<db, nextId, toFetch, fetches>>
  /\ UNCHANGED clockVars
  /\ UNCHANGED <<impl, ops>>
  /\ UNCHANGED tutorialVars
  /\ UNCHANGED serviceVars
  /\ UNCHANGED authVars
  /\ UNCHANGED statsVars

\* the 2000 ms timer fires: setSyncStatus('syncing'), creation request sent
RetryTimerFires(c) ==
  /\ calls[c].pc = "retryWait"
  /\ syncStatus' = "syncing"
  /\ calls' = [calls EXCEPT ![c] =
       [@ EXCEPT !.pc = "retrying", !.inserts = @ + 1]]
  /\ UNCHANGED <<records, loading, error>>
  /\ UNCHANGED <<db, nextId, toFetch, fetches>>
  /\ UNCHANGED clockVars
  /\ UNCHANGED opVars
  /\ UNCHANGED tutorialVars
  /\ UNCHANGED serviceVars
  /\ UNCHANGED authVars
  /\ UNCHANGED statsVars

\* the reply to the retry creation request reaches the timer callback
RetryResumes(c) ==
  /\ calls[c].pc = "retryReplied"
  /\ IF calls[c].response = "ok"
     THEN /\ syncStatus' = "synced"
          /\ calls' = [calls EXCEPT ![c] = RetrySucceeded(@)]
     ELSE /\ syncStatus' = "error"
          /\ calls' = [calls EXCEPT ![c] = RetryFailed(@)]
  /\ UNCHANGED <<records, loading, error>>
  /\ UNCHANGED <<db, nextId, toFetch, fetches>>
  /\ UNCHANGED clockVars
  /\ UNCHANGED opVars
  /\ UNCHANGED tutorialVars
  /\ UNCHANGED serviceVars
  /\ UNCHANGED authVars
  /\ UNCHANGED statsVars

----------------------------------------------------------------------------
(* subscribeToDailyRecords *)

\* a due re-fetch (the initial fetch, or the handler of a change event)
\* runs getDailyRecords at the backend
StartFetch ==
  /\ toFetch > 0
  /\ Len(fetches) < MaxFetches
  /\ \E ok \in BOOLEAN :
       fetches' = Append(fetches,
                         [Snapshot(getDailyRecords(db, user, ok))
                            EXCEPT !.failed = ~ok])
  /\ toFetch' = toFetch - 1
  /\ UNCHANGED <<db, nextId, calls>>
  /\ UNCHANGED storeVars
  /\ UNCHANGED clockVars
  /\ UNCHANGED opVars
  /\ UNCHANGED tutorialVars
  /\ UNCHANGED serviceVars
  /\ UNCHANGED authVars
  /\ UNCHANGED statsVars

\* a fetched snapshot reaches the callback, in whatever order replies arrive
DeliverFetch ==
  \E i \in DOMAIN fetches :
    /\ OnRecords(fetches[i].rows)
    /\ fetches' = [ j \in 1..(Len(fetches) - 1) |->
                      IF j < i THEN [fetches[j] EXCEPT !.late = TRUE]
                      ELSE fetches[j + 1] ]
    /\ UNCHANGED <<db, nextId, calls, toFetch>>
    /\ UNCHANGED clockVars
    /\ UNCHANGED opVars
    /\ UNCHANGED tutorialVars
    /\ UNCHANGED serviceVars
    /\ UNCHANGED authVars
    /\ UNCHANGED statsVars

----------------------------------------------------------------------------
(* SpecHook *)

\* what daily_records holds when the hook mounts: nothing, or yesterday's
\* record from an earlier session
InitialTables ==
  { {}, { Row(0, TheUser, Today - 1, CapsulesOn(Today - 1), TRUE) } }

\* the hook has mounted for a signed-in user: the initial fetch is due
HookInit ==
  /\ tz = 0
  /\ now = LocalInstant(Today, 10, tz)
  /\ user = TheUser
  /\ records = << >>
  /\ loading = TRUE
  /\ error = "null"
  /\ syncStatus = "synced"
  /\ stats = InitialStats
  /\ statsFresh = FALSE
  /\ progress = InitialProgress
  /\ progressFresh = FALSE
  /\ db \in InitialTables
  /\ nextId = 1
  /\ calls = [c \in 1..MaxCalls |-> IdleCall]
  /\ toFetch = 1
  /\ fetches = << >>
  /\ OpsIdle
  /\ TutorialIdle
  /\ ServiceIdle
  /\ AuthIdle

HookNext ==
  \/ \E c \in 1..MaxCalls : CallCreateRecord(c)
  \/ \E c \in 1..MaxCalls : BackendInsert(c)
  \/ \E c \in 1..MaxCalls : CreateResumes(c)
  \/ \E c \in 1..MaxCalls : VerifyCompletes(c)
  \/ \E c \in 1..MaxCalls : RetryTimerFires(c)
  \/ \E c \in 1..MaxCalls : RetryResumes(c)
  \/ StartFetch
  \/ DeliverFetch

SpecHook == HookInit /\ [][HookNext]_vars

----------------------------------------------------------------------------
(* Properties of createRecord (SpecHook) *)

CallIds == 1..MaxCalls

\* the replies with which a creation request fails
ErrorReplies == {"unique", "network"}

\* the initial creation request of invocation c failed
FirstFailed(c) == calls[c].first \in ErrorReplies

\* the retry creation request of invocation c failed / succeeded
RetryFailedOf(c) == calls[c].retry \in ErrorReplies
RetryOk(c) == calls[c].retry = "ok"

\* nothing is in flight: every invocation made has run to its end and every
\* re-fetch has been delivered
Quiescent ==
  /\ \A c \in CallIds : calls[c].pc \in {"idle", "done"}
  /\ toFetch = 0
  /\ fetches = << >>

\* C6: when the initial creation request failed and the background retry
\* succeeded, then once the retry and the re-fetches have completed (and no
\* other invocation failed) syncStatus is 'synced' and the backend holds
\* exactly one record for that (user, date)
C6_RetrySuccessSyncedOneRecord ==
  \A c \in CallIds :
    ( /\ FirstFailed(c)
      /\ RetryOk(c)
      /\ Quiescent
      /\ \A b \in CallIds \ {c} :
           calls[b].pc = "idle" \/ calls[b].result = "resolved" )
    => /\ syncStatus = "synced"
       /\ Cardinality(RowsOf(db, calls[c].data.user_id, calls[c].data.date)) = 1

C6_Witness ==
  \E c \in CallIds :
    /\ FirstFailed(c)
    /\ RetryOk(c)
    /\ Quiescent
    /\ syncStatus = "synced"
    /\ \E i \in DOMAIN records : records[i].date = calls[c].data.date

\* C7: an invocation whose initial creation request failed sends exactly one
\* retry creation request; no invocation sends more than two creation
\* requests; a failed retry is not retried
C7_ExactlyOneRetry ==
  \A c \in CallIds :
    /\ calls[c].inserts <= 2
    /\ (FirstFailed(c) /\ calls[c].inserts = 1) => calls[c].pc = "retryWait"
    /\ (FirstFailed(c) /\ calls[c].pc = "done") => calls[c].inserts = 2
    /\ RetryFailedOf(c) => (calls[c].pc = "done" /\ calls[c].inserts = 2)

C7_Witness ==
  \E c \in CallIds :
    /\ FirstFailed(c)
    /\ RetryFailedOf(c)
    /\ calls[c].pc = "done"
    /\ calls[c].inserts = 2

\* C8: when the creation request succeeded, the verification read (found,
\* absent or failing) only affects logging: the call does not reject, no
\* retry creation request is sent and no alert is shown
C8_VerificationOnlyLogs ==
  \A c \in CallIds :
    calls[c].first = "ok" =>
      /\ calls[c].result # "rejected"
      /\ calls[c].inserts = 1
      /\ ~calls[c].alerted
      /\ calls[c].verify # "none" => calls[c].result = "resolved"

\* C9: when the initial creation request fails, the caller receives the
\* original error before the retry runs, and nothing the retry does later
\* changes what the caller received
C9_RejectsBeforeRetry ==
  /\ [](\A c \in CallIds :
          /\ FirstFailed(c) =>
               (calls[c].result = "rejected" /\ calls[c].err = calls[c].first)
          /\ calls[c].inserts = 2 => calls[c].result = "rejected")
  /\ [][\A c \in CallIds :
          calls[c].result # "pending" =>
            /\ calls'[c].result = calls[c].result
            /\ calls'[c].err = calls[c].err]_vars

C9_Witness ==
  \E c \in CallIds :
    /\ FirstFailed(c)
    /\ RetryOk(c)
    /\ calls[c].result = "rejected"
    /\ calls[c].err = "network"

\* C10: the 'Sync Error' alert is shown if and only if both the initial
\* creation request and the retry creation request failed
C10_AlertOnlyOnFinalFailure ==
  \A c \in CallIds :
    /\ calls[c].alerted => (FirstFailed(c) /\ RetryFailedOf(c))
    /\ (FirstFailed(c) /\ RetryFailedOf(c)) => calls[c].alerted

----------------------------------------------------------------------------
(* updateRecord, deleteRecord, FirebaseRecordsProvider.createRecord *)

\* record ids a caller can pass: the ids the backend has handed out
KnownIds == 0..(nextId - 1)

\* what an update or delete request can meet at the backend:
\*   ok      - the statement runs and the reply arrives
\*   network - the request never reaches the table
\*   lost    - the statement runs but the reply never reaches the client
WriteOutcomes == {"ok", "network", "lost"}

\* op o is the next invocation to be made
NextOp(o) ==
  /\ ops[o].pc = "idle"
  /\ \A b \in 1..(o - 1) : ops[b].pc # "idle"

\* change events the channel receives for a statement on the row of id
EventsForId(id) ==
  IF \E r \in db : r.id = id /\ ChangeEvents(r.user_id) = 1 THEN 1 ELSE 0

\* FirebaseRecordsProvider.createRecord is called
ProviderCreateRecord(o) ==
  /\ impl = "provider"
  /\ NextOp(o)
  /\ \E d \in HookDates, done \in BOOLEAN :
       IF user = NoUser
       THEN /\ ops' = [ops EXCEPT ![o] =
                 [@ EXCEPT !.kind = "create", !.pc = "done",
                           !.caller = user, !.result = "rejected",
                           !.err = "No authenticated user"]]
            /\ UNCHANGED syncStatus
       ELSE /\ ops' = [ops EXCEPT ![o] =
                 [@ EXCEPT !.kind = "create", !.pc = "sent",
                           !.caller = user, !.sent = 1,
                           !.data = [user_id |-> user, date |-> d,
                                     capsules |-> CapsulesOn(d),
                                     completed |-> done]]]
            /\ syncStatus' = "syncing"
  /\ UNCHANGED <<records, loading, error>>
  /\ UNCHANGED backendVars
  /\ UNCHANGED <<impl, lastRead>>
  /\ UNCHANGED clockVars
  /\ UNCHANGED statsVars
  /\ UNCHANGED tutorialVars
  /\ UNCHANGED serviceVars
  /\ UNCHANGED authVars

\* updateRecord(recordId, updates) is called: setSyncStatus('syncing'),
\* update request sent
CallUpdateRecord(o) ==
  /\ NextOp(o)
  /\ \E id \in KnownIds, done \in BOOLEAN :
       ops' = [ops EXCEPT ![o] =
         [@ EXCEPT !.kind = "update", !.pc = "sent", !.caller = user,
                   !.target = id, !.sent = 1,
                   !.data = [completed |-> done]]]
  /\ syncStatus' = "syncing"
  /\ UNCHANGED <<records, loading, error>>
  /\ UNCHANGED backendVars
  /\ UNCHANGED <<impl, lastRead>>
  /\ UNCHANGED clockVars
  /\ UNCHANGED statsVars
  /\ UNCHANGED tutorialVars
  /\ UNCHANGED serviceVars
  /\ UNCHANGED authVars

\* deleteRecord(recordId) is called: setSyncStatus('syncing'), delete
\* request sent
CallDeleteRecord(o) ==
  /\ NextOp(o)
  /\ \E id \in KnownIds :
       ops' = [ops EXCEPT ![o] =
         [@ EXCEPT !.kind = "delete", !.pc = "sent", !.caller = user,
                   !.target = id, !.sent = 1]]
  /\ syncStatus' = "syncing"
  /\ UNCHANGED <<records, loading, error>>
  /\ UNCHANGED backendVars
  /\ UNCHANGED <<impl, lastRead>>
  /\ UNCHANGED clockVars
  /\ UNCHANGED statsVars
  /\ UNCHANGED tutorialVars
  /\ UNCHANGED serviceVars
  /\ UNCHANGED authVars

\* the backend handles the provider's creation request
BackendCreate(o) ==
  /\ ops[o].kind = "create"
  /\ ops[o].pc = "sent"
  /\ \E outcome \in InsertOutcomes :
       LET d == ops[o].data.date
           u == ops[o].data.user_id
           dup == ViolatesUnique(db, u, d)
           applied == outcome \in {"ok", "lost"}
       IN /\ (outcome = "unique") <=> dup
          /\ ops' = [ops EXCEPT ![o] =
               [@ EXCEPT !.pc = "replied", !.response = ReplyOf(outcome)]]
          /\ IF applied
             THEN /\ db' = db \cup { Row(nextId, u, d, ops[o].data.capsules,
                                         ops[o].data.completed) }
                  /\ nextId' = nextId + 1
                  /\ toFetch' = toFetch + ChangeEvents(u)
             ELSE UNCHANGED <<db, nextId, toFetch>>
  /\ UNCHANGED <<calls, fetches>>
  /\ UNCHANGED storeVars
  /\ UNCHANGED <<impl, lastRead>>
  /\ UNCHANGED clockVars
  /\ UNCHANGED statsVars
  /\ UNCHANGED tutorialVars
  /\ UNCHANGED serviceVars
  /\ UNCHANGED authVars

\* the backend handles an update request: .update(updates).eq('id', id)
BackendUpdate(o) ==
  /\ ops[o].kind = "update"
  /\ ops[o].pc = "sent"
  /\ \E outcome \in WriteOutcomes :
       /\ ops' = [ops EXCEPT ![o] =
            [@ EXCEPT !.pc = "replied", !.response = ReplyOf(outcome)]]
       /\ IF outcome \in {"ok", "lost"}
          THEN /\ db' = { IF r.id = ops[o].target
                          THEN [r EXCEPT !.completed = ops[o].data.completed]
                          ELSE r : r \in db }
               /\ toFetch' = toFetch + EventsForId(ops[o].target)
          ELSE UNCHANGED <<db, toFetch>>
  /\ UNCHANGED <<nextId, calls, fetches>>
  /\ UNCHANGED storeVars
  /\ UNCHANGED <<impl, lastRead>>
  /\ UNCHANGED clockVars
  /\ UNCHANGED statsVars
  /\ UNCHANGED tutorialVars
  /\ UNCHANGED serviceVars
  /\ UNCHANGED authVars

\* the backend handles a delete request: .delete().eq('id', id)
BackendDelete(o) ==
  /\ ops[o].kind = "delete"
  /\ ops[o].pc = "sent"
  /\ \E outcome \in WriteOutcomes :
       /\ ops' = [ops EXCEPT ![o] =
            [@ EXCEPT !.pc = "replied", !.response = ReplyOf(outcome)]]
       /\ IF outcome \in {"ok", "lost"}
          THEN /\ db' = { r \in db : r.id # ops[o].target }
               /\ toFetch' = toFetch + EventsForId(ops[o].target)
          ELSE UNCHANGED <<db, toFetch>>
  /\ UNCHANGED <<nextId, calls, fetches>>
  /\ UNCHANGED storeVars
  /\ UNCHANGED <<impl, lastRead>>
  /\ UNCHANGED clockVars
  /\ UNCHANGED statsVars
  /\ UNCHANGED tutorialVars
  /\ UNCHANGED serviceVars
  /\ UNCHANGED authVars

\* the catch block of the three operations: setSyncStatus('error'), rethrow
OpFailed(op) ==
  [op EXCEPT !.pc = "done", !.result = "rejected", !.err = op.response,
             !.response = "none"]

\* the operation's promise resolves
OpResolved(op) ==
  [op EXCEPT !.pc = "done", !.result = "resolved", !.response = "none"]

\* the reply reaches the provider's createRecord: on success it logs and
\* returns the id, and leaves syncStatus as it is
ProviderCreateResumes(o) ==
  /\ ops[o].kind = "create"
  /\ ops[o].pc = "replied"
  /\ IF ops[o].response = "ok"
     THEN /\ UNCHANGED syncStatus
          /\ ops' = [ops EXCEPT ![o] = OpResolved(@)]
     ELSE /\ syncStatus' = "error"
          /\ ops' = [ops EXCEPT ![o] = OpFailed(@)]
  /\ UNCHANGED <<records, loading, error>>
  /\ UNCHANGED backendVars
  /\ UNCHANGED <<impl, lastRead>>
  /\ UNCHANGED clockVars
  /\ UNCHANGED statsVars
  /\ UNCHANGED tutorialVars
  /\ UNCHANGED serviceVars
  /\ UNCHANGED authVars

\* the reply reaches updateRecord; the hook then waits 1500 ms before it
\* returns, the provider returns at once
UpdateResumes(o) ==
  /\ ops[o].kind = "update"
  /\ ops[o].pc = "replied"
  /\ IF ops[o].response = "ok"
     THEN /\ syncStatus' = "synced"
          /\ ops' = [ops EXCEPT ![o] =
               IF impl = "hook"
               THEN [@ EXCEPT !.pc = "waiting", !.response = "none"]
               ELSE OpResolved(@)]
     ELSE /\ syncStatus' = "error"
          /\ ops' = [ops EXCEPT ![o] = OpFailed(@)]
  /\ UNCHANGED <<records, loading, error>>
  /\ UNCHANGED backendVars
  /\ UNCHANGED <<impl, lastRead>>
  /\ UNCHANGED clockVars
  /\ UNCHANGED statsVars
  /\ UNCHANGED tutorialVars
  /\ UNCHANGED serviceVars
  /\ UNCHANGED authVars

\* the hook's 1500 ms wait after a successful update ends
UpdateDelayEnds(o) ==
  /\ ops[o].pc = "waiting"
  /\ ops' = [ops EXCEPT ![o] = OpResolved(@)]
  /\ UNCHANGED storeVars
  /\ UNCHANGED backendVars
  /\ UNCHANGED <<impl, lastRead>>
  /\ UNCHANGED clockVars
  /\ UNCHANGED statsVars
  /\ UNCHANGED tutorialVars
  /\ UNCHANGED serviceVars
  /\ UNCHANGED authVars

\* the reply reaches deleteRecord
DeleteResumes(o) ==
  /\ ops[o].kind = "delete"
  /\ ops[o].pc = "replied"
  /\ IF ops[o].response = "ok"
     THEN /\ syncStatus' = "synced"
          /\ ops' = [ops EXCEPT ![o] = OpResolved(@)]
     ELSE /\ syncStatus' = "error"
          /\ ops' = [ops EXCEPT ![o] = OpFailed(@)]
  /\ UNCHANGED <<records, loading, error>>
  /\ UNCHANGED backendVars
  /\ UNCHANGED <<impl, lastRead>>
  /\ UNCHANGED clockVars
  /\ UNCHANGED statsVars
  /\ UNCHANGED tutorialVars
  /\ UNCHANGED serviceVars
  /\ UNCHANGED authVars

\* getRecordByDate(date) is called on its own
GetRecordByDate ==
  /\ \E d \in HookDates, ok \in BOOLEAN : lastRead' = Read(0, d, ok)
  /\ UNCHANGED storeVars
  /\ UNCHANGED backendVars
  /\ UNCHANGED <<impl, ops>>
  /\ UNCHANGED clockVars
  /\ UNCHANGED statsVars
  /\ UNCHANGED tutorialVars
  /\ UNCHANGED serviceVars
  /\ UNCHANGED authVars

----------------------------------------------------------------------------
(* the [user] effect of the record store *)

\* the user signs out: the effect's cleanup unsubscribes, the effect runs
\* with no user.  Change events not yet handled go with the channel; a
\* getDailyRecords reply already on its way is not cancelled.
Logout ==
  /\ user # NoUser
  /\ user' = NoUser
  /\ records' = << >>
  /\ loading' = FALSE
  /\ UNCHANGED <<error, syncStatus>>
  /\ toFetch' = 0
  /\ fetches' = [ i \in DOMAIN fetches |-> [fetches[i] EXCEPT !.live = FALSE] ]
  /\ UNCHANGED <<db, nextId, calls>>
  /\ UNCHANGED opVars
  /\ UNCHANGED <<now, tz>>
  /\ UNCHANGED statsVars
  /\ UNCHANGED tutorialVars
  /\ UNCHANGED serviceVars
  /\ UNCHANGED authVars

----------------------------------------------------------------------------
(* SpecStore *)

\* the store (hook or provider) is mounted for a signed-in user and the
\* initial fetch has been delivered
StoreInit ==
  /\ tz = 0
  /\ now = LocalInstant(Today, 10, tz)
  /\ user = TheUser
  /\ db \in InitialTables
  /\ records = getDailyRecords(db, TheUser, TRUE)
  /\ loading = FALSE
  /\ error = "null"
  /\ syncStatus = "synced"
  /\ stats = InitialStats
  /\ statsFresh = FALSE
  /\ progress = InitialProgress
  /\ progressFresh = FALSE
  /\ nextId = 1
  /\ calls = [c \in 1..MaxCalls |-> IdleCall]
  /\ toFetch = 0
  /\ fetches = << >>
  /\ impl \in {"hook", "provider"}
  /\ ops = [o \in 1..MaxOps |-> IdleOp]
  /\ lastRead = NoRead
  /\ TutorialIdle
  /\ ServiceIdle
  /\ AuthIdle

StoreNext ==
  \/ \E c \in 1..MaxCalls : impl = "hook" /\ CallCreateRecord(c)
  \/ \E c \in 1..MaxCalls : BackendInsert(c)
  \/ \E c \in 1..MaxCalls : CreateResumes(c)
  \/ \E c \in 1..MaxCalls : VerifyCompletes(c)
  \/ \E c \in 1..MaxCalls : RetryTimerFires(c)
  \/ \E c \in 1..MaxCalls : RetryResumes(c)
  \/ \E o \in 1..MaxOps : ProviderCreateRecord(o)
  \/ \E o \in 1..MaxOps : CallUpdateRecord(o)
  \/ \E o \in 1..MaxOps : CallDeleteRecord(o)
  \/ \E o \in 1..MaxOps : BackendCreate(o)
  \/ \E o \in 1..MaxOps : BackendUpdate(o)
  \/ \E o \in 1..MaxOps : BackendDelete(o)
  \/ \E o \in 1..MaxOps : ProviderCreateResumes(o)
  \/ \E o \in 1..MaxOps : UpdateResumes(o)
  \/ \E o \in 1..MaxOps : UpdateDelayEnds(o)
  \/ \E o \in 1..MaxOps : DeleteResumes(o)
  \/ StartFetch
  \/ DeliverFetch
  \/ Logout

SpecStore == StoreInit /\ [][StoreNext]_vars

----------------------------------------------------------------------------
(* SpecReads: getRecordByDate called at any moment while records are
   created, updated and deleted and snapshots arrive.  The hook's createRecord
   is left to SpecStore: its verification and retry steps change nothing that
   getRecordByDate reads. *)

ReadsNext ==
  \/ \E o \in 1..MaxOps : ProviderCreateRecord(o)
  \/ \E o \in 1..MaxOps : CallUpdateRecord(o)
  \/ \E o \in 1..MaxOps : CallDeleteRecord(o)
  \/ \E o \in 1..MaxOps : BackendCreate(o)
  \/ \E o \in 1..MaxOps : BackendUpdate(o)
  \/ \E o \in 1..MaxOps : BackendDelete(o)
  \/ \E o \in 1..MaxOps : ProviderCreateResumes(o)
  \/ \E o \in 1..MaxOps : UpdateResumes(o)
  \/ \E o \in 1..MaxOps : UpdateDelayEnds(o)
  \/ \E o \in 1..MaxOps : DeleteResumes(o)
  \/ GetRecordByDate
  \/ StartFetch
  \/ DeliverFetch
  \/ Logout

SpecReads == StoreInit /\ [][ReadsNext]_vars

----------------------------------------------------------------------------
(* Properties of the sync status (SpecStore) *)

OpIds == 1..MaxOps

\* the backend request of hook createRecord call c (initial or retry) is
\* in flight
CallRequestInFlight(c) ==
  calls[c].pc \in {"creating", "createReplied", "retrying", "retryReplied"}

\* the backend request of op o is in flight
OpRequestInFlight(o) == ops[o].pc \in {"sent", "replied"}

\* a mutating operation other than call c / op o has been called, so that
\* it is or was in flight next to it
OtherThanCallActive(c) ==
  \/ \E b \in CallIds \ {c} : calls[b].pc # "idle"
  \/ \E o \in OpIds : ops[o].pc # "idle"

OtherThanOpActive(o) ==
  \/ \E c \in CallIds : calls[c].pc # "idle"
  \/ \E b \in OpIds \ {o} : ops[b].pc # "idle"

\* syncStatus is 'syncing' while the only operation's request is in flight
SyncingWhileInFlight ==
  /\ \A c \in CallIds :
       CallRequestInFlight(c) /\ ~OtherThanCallActive(c)
         => syncStatus = "syncing"
  /\ \A o \in OpIds :
       OpRequestInFlight(o) /\ ~OtherThanOpActive(o)
         => syncStatus = "syncing"

\* at the step in which the only operation resolves, syncStatus is 'synced'
SyncedOnResolve ==
  /\ \A c \in CallIds :
       /\ calls[c].result = "pending"
       /\ calls'[c].result = "resolved"
       /\ ~OtherThanCallActive(c)
       => syncStatus' = "synced"
  /\ \A o \in OpIds :
       /\ ops[o].result = "pending"
       /\ ops'[o].result = "resolved"
       /\ ~OtherThanOpActive(o)
       => syncStatus' = "synced"

\* C11: for createRecord, updateRecord and deleteRecord of the hook and of
\* the provider, syncStatus is 'syncing' while the backend request is in
\* flight, and when the operation resolves with no other mutating operation
\* in flight syncStatus is 'synced' at that moment, whether or not a realtime
\* event has arrived.
C11_SyncStatusFollowsOperation ==
  /\ [] SyncingWhileInFlight
  /\ [][SyncedOnResolve]_vars

\* a mutating operation (or its retry) enters flight, resumes or resolves
MutatingStep == calls' # calls \/ ops' # ops

\* C12: once syncStatus is 'error' it stays 'error' until a mutating
\* operation (or its retry) enters flight or succeeds; a snapshot delivery,
\* also that of a re-fetch that failed at the backend, does not move it back
\* to 'synced'.
C12_ErrorStaysUntilNextOperation ==
  [][syncStatus = "error" /\ syncStatus' # "error" => MutatingStep]_vars

----------------------------------------------------------------------------
(* Properties of the subscription (SpecStore) *)

\* this step is the snapshot callback invoked with the entry at position i
Delivered(i) ==
  /\ i \in DOMAIN fetches
  /\ fetches' = [ j \in 1..(Len(fetches) - 1) |->
                    IF j < i THEN [fetches[j] EXCEPT !.late = TRUE]
                    ELSE fetches[j + 1] ]

\* C13: after the subscription is unsubscribed the snapshot callback is not
\* invoked again: no fetch that was in flight delivers records.
C13_NoCallbackAfterUnsubscribe ==
  [][\A i \in DOMAIN fetches : Delivered(i) => fetches[i].live]_vars

\* C14: a snapshot fetched earlier never overwrites one fetched later: when
\* two re-fetches complete in either order, records are the later one's.
C14_OlderSnapshotNeverOverwrites ==
  [][\A i \in DOMAIN fetches :
       Delivered(i) /\ fetches[i].late => records' = records]_vars

\* C15: the in-memory records are records of the signed-in user only (none
\* when nobody is signed in).
C15_RecordsBelongToUser ==
  \A i \in DOMAIN records : records[i].user_id = user

----------------------------------------------------------------------------
(* Properties of getRecordByDate (SpecReads, SpecStore) *)

\* C16: getRecordByDate never rejects; it returns the in-memory record of
\* the date when there is one, otherwise what the backend lookup gives, and
\* null without a user, without a record, and when the lookup fails.
C16_GetRecordByDateNeverRejects ==
  lastRead.date # 0 =>
    /\ lastRead.outcome = "returned"
    /\ lastRead.caller = NoUser => lastRead.value = << >>
    /\ lastRead.caller # NoUser /\ lastRead.mem # << >> =>
         /\ lastRead.value = lastRead.mem
         /\ lastRead.value[1].date = lastRead.date
    /\ lastRead.caller # NoUser /\ lastRead.mem = << >> =>
         /\ lastRead.lookup \in {"error", "absent"} => lastRead.value = << >>
         /\ lastRead.lookup = "found" =>
              /\ lastRead.value = lastRead.row
              /\ lastRead.value[1].date = lastRead.date
              /\ lastRead.value[1].user_id = lastRead.caller

\* the backend lookup of a signed-in user failed and null was returned
C16_Witness ==
  /\ lastRead.caller # NoUser
  /\ lastRead.lookup = "error"
  /\ lastRead.outcome = "returned"
  /\ lastRead.value = << >>

\* C17: after createRecord has resolved, the getRecordByDate(input.date)
\* that directly follows returns a record with the input's date, capsules
\* and completed (`time` travels with them and is not modelled apart).
C17_ReadAfterCreateReturnsInput ==
  \A c \in CallIds :
    lastRead.after = c =>
      /\ lastRead.value # << >>
      /\ lastRead.value[1].date = calls[c].data.date
      /\ lastRead.value[1].capsules = calls[c].data.capsules
      /\ lastRead.value[1].completed = calls[c].data.completed

----------------------------------------------------------------------------
(* Properties of the error handling (SpecStore, SpecHook) *)

\* C18: with no user signed in, a mutating operation fails before a backend
\* request is sent and leaves syncStatus and records as they are.
C18_NoUserFailsFast ==
  [][user = NoUser =>
       /\ \A c \in CallIds :
            calls[c].pc = "idle" /\ calls'[c].pc # "idle" =>
              /\ calls'[c].result = "rejected"
              /\ calls'[c].inserts = 0
              /\ UNCHANGED <<syncStatus, records>>
       /\ \A o \in OpIds :
            ops[o].pc = "idle" /\ ops'[o].pc # "idle" =>
              /\ ops'[o].result = "rejected"
              /\ ops'[o].sent = 0
              /\ UNCHANGED <<syncStatus, records>>]_vars

\* C19: a creation request refused by UNIQUE(user_id, date) is a domain
\* error: createRecord schedules no retry for it and shows no alert.
C19_UniqueViolationNotRetried ==
  \A c \in CallIds :
    calls[c].first = "unique" =>
      /\ calls[c].pc = "done"
      /\ calls[c].inserts = 1
      /\ ~calls[c].alerted

----------------------------------------------------------------------------
(* useTutorial *)

\* faulty variant: a status query that answers "seen" whatever the row says
hasUserSeenTutorial_AlwaysSeen(flag, ok) == "true"

\* hasUserSeenTutorial: data?.has_seen_tutorial || false, and true when the
\* query fails
hasUserSeenTutorial(flag, ok) ==
  IF ~ok THEN "true"
  ELSE IF flag = "true" THEN "true" ELSE "false"

\* .update({ has_seen_tutorial: value }).eq('user_id', userId): a user
\* without a profile row has nothing updated, and no error is raised
UpdateFlag(flag, value) == IF flag = "norow" THEN "norow" ELSE value

\* tutorial op k is the next one to be started
NextTutorialOp(k) ==
  /\ tutorialOps[k].pc = "idle"
  /\ \A j \in 1..(k - 1) : tutorialOps[j].pc # "idle"

\* no useTutorial operation is waiting for the backend
TutorialQuiet ==
  \A k \in 1..MaxTutorialOps : tutorialOps[k].pc \in {"idle", "done"}

\* the effect runs checkTutorialStatus (mount, or user / userProfile changed)
CheckTutorialStatus(k) ==
  /\ NextTutorialOp(k)
  /\ IF user = NoUser
     THEN /\ showTutorial' = FALSE
          /\ tutorialLoading' = FALSE
          /\ tutorialOps' = [tutorialOps EXCEPT ![k] =
               [@ EXCEPT !.kind = "check", !.pc = "done"]]
     ELSE /\ tutorialLoading' = TRUE
          /\ tutorialOps' = [tutorialOps EXCEPT ![k] =
               [@ EXCEPT !.kind = "check", !.pc = "sent"]]
          /\ UNCHANGED showTutorial
  /\ UNCHANGED <<hasSeenTutorial, tutorialDone>>
  /\ UNCHANGED clockVars
  /\ UNCHANGED serviceVars
  /\ UNCHANGED authVars
  /\ UNCHANGED storeVars
  /\ UNCHANGED statsVars
  /\ UNCHANGED backendVars
  /\ UNCHANGED opVars

\* a fresh session: the hook mounts anew with its initial state and its
\* effect runs checkTutorialStatus
SessionLoads(k) ==
  /\ TutorialQuiet
  /\ NextTutorialOp(k)
  /\ IF user = NoUser
     THEN /\ showTutorial' = FALSE
          /\ tutorialLoading' = FALSE
          /\ tutorialOps' = [tutorialOps EXCEPT ![k] =
               [@ EXCEPT !.kind = "check", !.pc = "done"]]
     ELSE /\ showTutorial' = FALSE
          /\ tutorialLoading' = TRUE
          /\ tutorialOps' = [tutorialOps EXCEPT ![k] =
               [@ EXCEPT !.kind = "check", !.pc = "sent", !.fresh = TRUE]]
  /\ UNCHANGED <<hasSeenTutorial, tutorialDone>>
  /\ UNCHANGED clockVars
  /\ UNCHANGED serviceVars
  /\ UNCHANGED authVars
  /\ UNCHANGED storeVars
  /\ UNCHANGED statsVars
  /\ UNCHANGED backendVars
  /\ UNCHANGED opVars

\* the backend answers hasUserSeenTutorial
BackendReadsFlag(k) ==
  /\ tutorialOps[k].kind = "check"
  /\ tutorialOps[k].pc = "sent"
  /\ \E ok \in BOOLEAN :
       tutorialOps' = [tutorialOps EXCEPT ![k] =
         [@ EXCEPT !.pc = "replied",
                   !.read = IF ~ok THEN "error"
                            ELSE IF hasSeenTutorial = "norow" THEN "norow"
                            ELSE "row",
                   !.reply = hasUserSeenTutorial(hasSeenTutorial, ok)]]
  /\ UNCHANGED <<showTutorial, tutorialLoading, hasSeenTutorial, tutorialDone>>
  /\ UNCHANGED clockVars
  /\ UNCHANGED serviceVars
  /\ UNCHANGED authVars
  /\ UNCHANGED storeVars
  /\ UNCHANGED statsVars
  /\ UNCHANGED backendVars
  /\ UNCHANGED opVars

\* checkTutorialStatus resumes with the answer
CheckResumes(k) ==
  /\ tutorialOps[k].kind = "check"
  /\ tutorialOps[k].pc = "replied"
  /\ showTutorial' = (tutorialOps[k].reply = "false")
  /\ tutorialLoading' = FALSE
  /\ tutorialOps' = [tutorialOps EXCEPT ![k] = [@ EXCEPT !.pc = "done"]]
  /\ UNCHANGED <<hasSeenTutorial, tutorialDone>>
  /\ UNCHANGED clockVars
  /\ UNCHANGED serviceVars
  /\ UNCHANGED authVars
  /\ UNCHANGED storeVars
  /\ UNCHANGED statsVars
  /\ UNCHANGED backendVars
  /\ UNCHANGED opVars

\* completeTutorial() is called (skipTutorial() only awaits it)
CompleteTutorial(k) ==
  /\ NextTutorialOp(k)
  /\ tutorialOps' = [tutorialOps EXCEPT ![k] =
       [@ EXCEPT !.kind = "complete", !.alone = TutorialQuiet,
                 !.pc = IF user = NoUser THEN "done" ELSE "sent"]]
  /\ UNCHANGED <<showTutorial, tutorialLoading, hasSeenTutorial, tutorialDone>>
  /\ UNCHANGED clockVars
  /\ UNCHANGED serviceVars
  /\ UNCHANGED authVars
  /\ UNCHANGED storeVars
  /\ UNCHANGED statsVars
  /\ UNCHANGED backendVars
  /\ UNCHANGED opVars

\* the backend handles markTutorialAsSeen
BackendMarksSeen(k) ==
  /\ tutorialOps[k].kind = "complete"
  /\ tutorialOps[k].pc = "sent"
  /\ \E ok \in BOOLEAN :
       /\ tutorialOps' = [tutorialOps EXCEPT ![k] =
            [@ EXCEPT !.pc = "replied",
                      !.reply = IF ok THEN "ok" ELSE "error"]]
       /\ hasSeenTutorial' = IF ok THEN UpdateFlag(hasSeenTutorial, "true")
                             ELSE hasSeenTutorial
  /\ UNCHANGED <<showTutorial, tutorialLoading, tutorialDone>>
  /\ UNCHANGED clockVars
  /\ UNCHANGED serviceVars
  /\ UNCHANGED authVars
  /\ UNCHANGED storeVars
  /\ UNCHANGED statsVars
  /\ UNCHANGED backendVars
  /\ UNCHANGED opVars

\* faulty variant: completeTutorial flips showTutorial
CompleteResumes_Toggles(k) ==
  /\ tutorialOps[k].kind = "complete"
  /\ tutorialOps[k].pc = "replied"
  /\ showTutorial' = ~showTutorial
  /\ tutorialDone' = TRUE
  /\ tutorialOps' = [tutorialOps EXCEPT ![k] =
       [@ EXCEPT !.pc = "done",
                 !.after = <<showTutorial', hasSeenTutorial>>]]
  /\ UNCHANGED <<tutorialLoading, hasSeenTutorial>>
  /\ UNCHANGED clockVars
  /\ UNCHANGED serviceVars
  /\ UNCHANGED authVars
  /\ UNCHANGED storeVars
  /\ UNCHANGED statsVars
  /\ UNCHANGED backendVars
  /\ UNCHANGED opVars

\* completeTutorial resumes: setShowTutorial(false) after the write and in
\* the catch block alike, then it returns
CompleteResumes(k) ==
  /\ tutorialOps[k].kind = "complete"
  /\ tutorialOps[k].pc = "replied"
  /\ showTutorial' = FALSE
  /\ tutorialDone' = TRUE
  /\ tutorialOps' = [tutorialOps EXCEPT ![k] =
       [@ EXCEPT !.pc = "done",
                 !.after = <<showTutorial', hasSeenTutorial>>]]
  /\ UNCHANGED <<tutorialLoading, hasSeenTutorial>>
  /\ UNCHANGED clockVars
  /\ UNCHANGED serviceVars
  /\ UNCHANGED authVars
  /\ UNCHANGED storeVars
  /\ UNCHANGED statsVars
  /\ UNCHANGED backendVars
  /\ UNCHANGED opVars

\* resetTutorial() is called
ResetTutorial(k) ==
  /\ NextTutorialOp(k)
  /\ tutorialOps' = [tutorialOps EXCEPT ![k] =
       [@ EXCEPT !.kind = "reset",
                 !.pc = IF user = NoUser THEN "done" ELSE "sent"]]
  /\ tutorialDone' = FALSE
  /\ UNCHANGED <<showTutorial, tutorialLoading, hasSeenTutorial>>
  /\ UNCHANGED clockVars
  /\ UNCHANGED serviceVars
  /\ UNCHANGED authVars
  /\ UNCHANGED storeVars
  /\ UNCHANGED statsVars
  /\ UNCHANGED backendVars
  /\ UNCHANGED opVars

\* the backend handles resetTutorialStatus
BackendResetsFlag(k) ==
  /\ tutorialOps[k].kind = "reset"
  /\ tutorialOps[k].pc = "sent"
  /\ \E ok \in BOOLEAN :
       /\ tutorialOps' = [tutorialOps EXCEPT ![k] =
            [@ EXCEPT !.pc = "replied",
                      !.reply = IF ok THEN "ok" ELSE "error"]]
       /\ hasSeenTutorial' = IF ok THEN UpdateFlag(hasSeenTutorial, "false")
                             ELSE hasSeenTutorial
  /\ UNCHANGED <<showTutorial, tutorialLoading, tutorialDone>>
  /\ UNCHANGED clockVars
  /\ UNCHANGED serviceVars
  /\ UNCHANGED authVars
  /\ UNCHANGED storeVars
  /\ UNCHANGED statsVars
  /\ UNCHANGED backendVars
  /\ UNCHANGED opVars

\* resetTutorial resumes: setShowTutorial(true) after the write only
ResetResumes(k) ==
  /\ tutorialOps[k].kind = "reset"
  /\ tutorialOps[k].pc = "replied"
  /\ showTutorial' = IF tutorialOps[k].reply = "ok" THEN TRUE
                     ELSE showTutorial
  /\ tutorialOps' = [tutorialOps EXCEPT ![k] = [@ EXCEPT !.pc = "done"]]
  /\ UNCHANGED <<tutorialLoading, hasSeenTutorial, tutorialDone>>
  /\ UNCHANGED clockVars
  /\ UNCHANGED serviceVars
  /\ UNCHANGED authVars
  /\ UNCHANGED storeVars
  /\ UNCHANGED statsVars
  /\ UNCHANGED backendVars
  /\ UNCHANGED opVars

----------------------------------------------------------------------------
(* SpecTutorial *)

\* the profile rows a user can have when the hook mounts
InitialFlags == {"norow", "false", "true"}

\* useTutorial has mounted: showTutorial false, loading true
TutorialInit ==
  /\ tz = 0
  /\ now = LocalInstant(Today, 10, tz)
  /\ user \in {TheUser, NoUser}
  /\ records = << >>
  /\ loading = FALSE
  /\ error = "null"
  /\ syncStatus = "synced"
  /\ stats = InitialStats
  /\ statsFresh = FALSE
  /\ progress = InitialProgress
  /\ progressFresh = FALSE
  /\ BackendIdle
  /\ OpsIdle
  /\ showTutorial = FALSE
  /\ tutorialLoading = TRUE
  /\ hasSeenTutorial \in InitialFlags
  /\ tutorialOps = [k \in 1..MaxTutorialOps |-> IdleTutorialOp]
  /\ tutorialDone = FALSE
  /\ ServiceIdle
  /\ AuthIdle

TutorialNext ==
  \/ \E k \in 1..MaxTutorialOps : CheckTutorialStatus(k)
  \/ \E k \in 1..MaxTutorialOps : SessionLoads(k)
  \/ \E k \in 1..MaxTutorialOps : BackendReadsFlag(k)
  \/ \E k \in 1..MaxTutorialOps : CheckResumes(k)
  \/ \E k \in 1..MaxTutorialOps : CompleteTutorial(k)
  \/ \E k \in 1..MaxTutorialOps : BackendMarksSeen(k)
  \/ \E k \in 1..MaxTutorialOps : CompleteResumes(k)
  \/ \E k \in 1..MaxTutorialOps : ResetTutorial(k)
  \/ \E k \in 1..MaxTutorialOps : BackendResetsFlag(k)
  \/ \E k \in 1..MaxTutorialOps : ResetResumes(k)

SpecTutorial == TutorialInit /\ [][TutorialNext]_vars

----------------------------------------------------------------------------
(* Properties of the tutorial gate (SpecTutorial) *)

\* a resetTutorial() call is still waiting for the backend
ResetInFlight ==
  \E k \in 1..MaxTutorialOps :
    tutorialOps[k].kind = "reset" /\ tutorialOps[k].pc # "done"

\* C20: once completeTutorial() (or skipTutorial()) has returned for a user
\* the gate does not show the tutorial in any later state, whatever status
\* checks were in flight and whatever sessions load later, until
\* resetTutorial() is called, also when the backend write failed.
C20_CompletedUntilReset ==
  tutorialDone /\ ~ResetInFlight => ~showTutorial

TutorialOpIds == 1..MaxTutorialOps

\* the tutorial of the user has never been marked seen: the flag is not
\* true and has not been written (no completeTutorial, no resetTutorial)
NeverMarkedSeen ==
  /\ hasSeenTutorial # "true"
  /\ \A j \in TutorialOpIds : tutorialOps[j].kind \notin {"complete", "reset"}

\* this step is status check k ending
CheckEnds(k) ==
  /\ tutorialOps[k].kind = "check"
  /\ tutorialOps[k].pc = "replied"
  /\ tutorialOps'[k].pc = "done"

\* C21 as stated: for a signed-in user whose tutorial was never marked seen,
\* every status check of a fresh session load ends with showTutorial = true
\* and loading = false.
C21_NeverSeenEndsPending ==
  [][\A k \in TutorialOpIds :
       CheckEnds(k) /\ tutorialOps[k].fresh /\ NeverMarkedSeen
         => showTutorial' /\ ~tutorialLoading']_vars

\* C21, amended: ... every status check of a fresh session load whose
\* status query did not fail ends with showTutorial = true and
\* loading = false.
C21_NeverSeenEndsPendingWhenRead ==
  [][\A k \in TutorialOpIds :
       /\ CheckEnds(k)
       /\ tutorialOps[k].fresh
       /\ NeverMarkedSeen
       /\ tutorialOps[k].read # "error"
       => showTutorial' /\ ~tutorialLoading']_vars

\* a fresh session's status check of a never-seen tutorial has ended pending
C21_Witness ==
  \E k \in TutorialOpIds :
    /\ tutorialOps[k].kind = "check"
    /\ tutorialOps[k].fresh
    /\ tutorialOps[k].pc = "done"
    /\ tutorialOps[k].read \in {"row", "norow"}
    /\ NeverMarkedSeen
    /\ showTutorial
    /\ ~tutorialLoading

\* C22: when the status query fails for a signed-in user (backend error, or
\* no profile row returned) the status check ends with showTutorial = false.
C22_FailedReadHidesTutorial ==
  [][\A k \in TutorialOpIds :
       CheckEnds(k) /\ tutorialOps[k].read \in {"error", "norow"}
         => ~showTutorial']_vars

\* this step is the second of two skipTutorial() calls in a row returning:
\* call j and call j + 1 were each made by a signed-in user with nothing
\* else in flight, and nothing was started since
SecondSkipReturns(j) ==
  /\ j + 1 \in TutorialOpIds
  /\ tutorialOps[j].kind = "complete"
  /\ tutorialOps[j].pc = "done"
  /\ tutorialOps[j].after # << >>
  /\ tutorialOps[j].alone
  /\ tutorialOps[j + 1].kind = "complete"
  /\ tutorialOps[j + 1].alone
  /\ tutorialOps[j + 1].pc = "replied"
  /\ tutorialOps'[j + 1].pc = "done"
  /\ \A i \in TutorialOpIds : i > j + 1 => tutorialOps[i].pc = "idle"

----------------------------------------------------------------------------
(* SupabaseService called directly: getUserSettings, the read paths,       *)
(* clearAllUserData                                                        *)

\* the defaults getUserSettings creates the row from
DefaultSettings(u) ==
  [ user_id |-> u, notifications |-> TRUE, reminder_time |-> "09:00",
    daily_goal |-> 2, weekly_goal |-> 14, theme |-> "light",
    language |-> "en" ]

\* a row the user changed in an earlier session
CustomSettings(u) ==
  [ user_id |-> u, notifications |-> FALSE, reminder_time |-> "21:30",
    daily_goal |-> 3, weekly_goal |-> 21, theme |-> "dark",
    language |-> "pt" ]

\* .from('user_settings').select('*').eq('user_id', userId)
SettingsOf(rows, u) == SelectSeq(rows, LAMBDA r : r.user_id = u)

\* user_settings.user_id is the primary key: the insert is refused when the
\* user has a row
InsertSettings(rows, row) ==
  IF SettingsOf(rows, row.user_id) # << >> THEN rows ELSE Append(rows, row)

\* faulty variant: a profile read that answers null when the query fails
getUserProfile_Swallows(flag, ok) ==
  IF ok /\ flag # "norow" THEN "found" ELSE "absent"

\* getUserProfile: the row, null when there is none (PGRST116), and the
\* error is thrown when the query fails
getUserProfile(flag, ok) ==
  IF ~ok THEN "error"
  ELSE IF flag = "norow" THEN "absent" ELSE "found"

\* the single-query read paths
ReadPaths ==
  {"getDailyRecords", "getDailyRecordByDate", "getUserProfile",
   "hasUserSeenTutorial"}

\* what a read path hands to its caller: a value, or "error" when it throws
ReadPathResult(fn, d, ok) ==
  CASE fn = "getDailyRecords" ->
         IF getDailyRecords(db, user, ok) = << >> THEN "empty" ELSE "rows"
    [] fn = "getDailyRecordByDate" -> getDailyRecordByDate(db, user, d, ok)
    [] fn = "getUserProfile" -> getUserProfile(hasSeenTutorial, ok)
    [] fn = "hasUserSeenTutorial" -> hasUserSeenTutorial(hasSeenTutorial, ok)

\* a read path is called and returns or throws
CallReadPath(fn) ==
  /\ user # NoUser
  /\ \E ok \in BOOLEAN, d \in {Today - 1, Today} :
       LET res == ReadPathResult(fn, d, ok)
       IN readPath' = [ fn |-> fn, ok |-> ok,
                        outcome |-> IF res = "error" THEN "threw"
                                    ELSE "returned",
                        value |-> res ]
  /\ UNCHANGED <<userSettings, settingsCalls, clearOp>>
  /\ UNCHANGED clockVars
  /\ UNCHANGED storeVars
  /\ UNCHANGED statsVars
  /\ UNCHANGED backendVars
  /\ UNCHANGED opVars
  /\ UNCHANGED tutorialVars
  /\ UNCHANGED authVars

\* getUserSettings(userId) is called: the select is sent
CallGetUserSettings(c) ==
  /\ user # NoUser
  /\ settingsCalls[c].pc = "idle"
  /\ \A b \in 1..(c - 1) : settingsCalls[b].pc # "idle"
  /\ settingsCalls' = [settingsCalls EXCEPT ![c].pc = "select"]
  /\ UNCHANGED <<userSettings, clearOp, readPath>>
  /\ UNCHANGED clockVars
  /\ UNCHANGED storeVars
  /\ UNCHANGED statsVars
  /\ UNCHANGED backendVars
  /\ UNCHANGED opVars
  /\ UNCHANGED tutorialVars
  /\ UNCHANGED authVars

\* the backend answers .select('*').eq('user_id', userId).single()
BackendSelectsSettings(c) ==
  /\ settingsCalls[c].pc = "select"
  /\ \E ok \in BOOLEAN :
       LET rows == SettingsOf(userSettings, user)
       IN settingsCalls' =
            [settingsCalls EXCEPT
               ![c].pc = "selected",
               ![c].reply = IF ~ok THEN "error"
                            ELSE IF rows = << >> THEN "norow" ELSE "row",
               ![c].found = IF ok THEN rows ELSE << >>,
               ![c].first = ok /\ rows = << >>,
               ![c].failed = ~ok]
  /\ UNCHANGED <<userSettings, clearOp, readPath>>
  /\ UNCHANGED clockVars
  /\ UNCHANGED storeVars
  /\ UNCHANGED statsVars
  /\ UNCHANGED backendVars
  /\ UNCHANGED opVars
  /\ UNCHANGED tutorialVars
  /\ UNCHANGED authVars

\* getUserSettings resumes after the select: an error other than PGRST116 is
\* thrown, a row is returned, and without a row createUserSettings is called
\* with the defaults
SelectResumes(c) ==
  /\ settingsCalls[c].pc = "selected"
  /\ settingsCalls' =
       [settingsCalls EXCEPT
          ![c] = CASE settingsCalls[c].reply = "error" ->
                        [@ EXCEPT !.pc = "done", !.result = "rejected"]
                   [] settingsCalls[c].reply = "row" ->
                        [@ EXCEPT !.pc = "done", !.result = "resolved",
                                  !.value = settingsCalls[c].found]
                   [] settingsCalls[c].reply = "norow" ->
                        [@ EXCEPT !.pc = "insert"]]
  /\ UNCHANGED <<userSettings, clearOp, readPath>>
  /\ UNCHANGED clockVars
  /\ UNCHANGED storeVars
  /\ UNCHANGED statsVars
  /\ UNCHANGED backendVars
  /\ UNCHANGED opVars
  /\ UNCHANGED tutorialVars
  /\ UNCHANGED authVars

\* the backend answers createUserSettings' insert
BackendInsertsSettings(c) ==
  /\ settingsCalls[c].pc = "insert"
  /\ \E ok \in BOOLEAN :
       LET after == IF ok THEN InsertSettings(userSettings, DefaultSettings(user))
                    ELSE userSettings
       IN /\ userSettings' = after
          /\ settingsCalls' =
               [settingsCalls EXCEPT
                  ![c].pc = "inserted",
                  ![c].reply = IF ~ok THEN "error"
                               ELSE IF after = userSettings THEN "duplicate"
                               ELSE "ok",
                  ![c].failed = ~ok]
  /\ UNCHANGED <<clearOp, readPath>>
  /\ UNCHANGED clockVars
  /\ UNCHANGED storeVars
  /\ UNCHANGED statsVars
  /\ UNCHANGED backendVars
  /\ UNCHANGED opVars
  /\ UNCHANGED tutorialVars
  /\ UNCHANGED authVars

\* getUserSettings resumes after createUserSettings: the defaults are
\* returned, or the error createUserSettings threw is thrown on
InsertResumes(c) ==
  /\ settingsCalls[c].pc = "inserted"
  /\ settingsCalls' =
       [settingsCalls EXCEPT
          ![c] = IF settingsCalls[c].reply = "ok"
                 THEN [@ EXCEPT !.pc = "done", !.result = "resolved",
                                !.value = <<DefaultSettings(user)>>]
                 ELSE [@ EXCEPT !.pc = "done", !.result = "rejected"]]
  /\ UNCHANGED <<userSettings, clearOp, readPath>>
  /\ UNCHANGED clockVars
  /\ UNCHANGED storeVars
  /\ UNCHANGED statsVars
  /\ UNCHANGED backendVars
  /\ UNCHANGED opVars
  /\ UNCHANGED tutorialVars
  /\ UNCHANGED authVars

\* the tables clearAllUserData deletes from, in the order of its awaits
ClearOrder == <<"profiles", "settings", "records", "done">>

\* clearAllUserData(userId) is called: the first deletion is sent
CallClearAllUserData ==
  /\ user # NoUser
  /\ clearOp.pc = "idle"
  /\ clearOp' = [clearOp EXCEPT !.pc = ClearOrder[1]]
  /\ UNCHANGED <<userSettings, settingsCalls, readPath>>
  /\ UNCHANGED clockVars
  /\ UNCHANGED storeVars
  /\ UNCHANGED statsVars
  /\ UNCHANGED backendVars
  /\ UNCHANGED opVars
  /\ UNCHANGED tutorialVars
  /\ UNCHANGED authVars

\* the backend answers the deletion awaited at step i and clearAllUserData
\* goes on: the { error } a failed deletion answers with is never read, so
\* the next deletion is sent, and after the third the call resolves
ClearStep(i) ==
  /\ clearOp.pc = ClearOrder[i]
  /\ \E ok \in BOOLEAN :
       /\ hasSeenTutorial' =
            IF ok /\ i = 1 THEN "norow" ELSE hasSeenTutorial
       /\ userSettings' =
            IF ok /\ i = 2
            THEN SelectSeq(userSettings, LAMBDA r : r.user_id # user)
            ELSE userSettings
       /\ db' = IF ok /\ i = 3 THEN { r \in db : r.user_id # user } ELSE db
       /\ clearOp' =
            [clearOp EXCEPT
               !.pc = ClearOrder[i + 1],
               !.failed = IF ok THEN @ ELSE @ \cup {ClearOrder[i]},
               !.result = IF i = 3 THEN "resolved" ELSE @]
  /\ UNCHANGED <<settingsCalls, readPath>>
  /\ UNCHANGED <<nextId, calls, toFetch, fetches>>
  /\ UNCHANGED <<showTutorial, tutorialLoading, tutorialOps, tutorialDone>>
  /\ UNCHANGED clockVars
  /\ UNCHANGED storeVars
  /\ UNCHANGED statsVars
  /\ UNCHANGED opVars
  /\ UNCHANGED authVars

\* a signed-in user; the tables hold what earlier sessions left
ServiceInit ==
  /\ tz = 0
  /\ now = LocalInstant(Today, 10, tz)
  /\ user = TheUser
  /\ records = << >>
  /\ loading = FALSE
  /\ error = "null"
  /\ syncStatus = "synced"
  /\ stats = InitialStats
  /\ statsFresh = FALSE
  /\ progress = InitialProgress
  /\ progressFresh = FALSE
  /\ db \in InitialTables
  /\ nextId = 1
  /\ calls = [c \in 1..MaxCalls |-> IdleCall]
  /\ toFetch = 0
  /\ fetches = << >>
  /\ OpsIdle
  /\ showTutorial = FALSE
  /\ tutorialLoading = TRUE
  /\ hasSeenTutorial \in InitialFlags
  /\ tutorialOps = [k \in 1..MaxTutorialOps |-> IdleTutorialOp]
  /\ tutorialDone = FALSE
  /\ userSettings \in { << >>, <<CustomSettings(TheUser)>> }
  /\ settingsCalls = [c \in 1..MaxSettingsCalls |-> IdleSettingsCall]
  /\ clearOp = IdleClear
  /\ readPath = NoReadPath
  /\ AuthIdle

ServiceNext ==
  \/ \E c \in 1..MaxSettingsCalls : CallGetUserSettings(c)
  \/ \E c \in 1..MaxSettingsCalls : BackendSelectsSettings(c)
  \/ \E c \in 1..MaxSettingsCalls : SelectResumes(c)
  \/ \E c \in 1..MaxSettingsCalls : BackendInsertsSettings(c)
  \/ \E c \in 1..MaxSettingsCalls : InsertResumes(c)
  \/ CallClearAllUserData
  \/ \E i \in 1..3 : ClearStep(i)

SpecService == ServiceInit /\ [][ServiceNext]_vars

\* the read paths of SupabaseService, each called at any moment
ReadPathsNext ==
  \/ \E fn \in ReadPaths : CallReadPath(fn)
  \/ \E c \in 1..MaxSettingsCalls : CallGetUserSettings(c)
  \/ \E c \in 1..MaxSettingsCalls : BackendSelectsSettings(c)
  \/ \E c \in 1..MaxSettingsCalls : SelectResumes(c)
  \/ \E c \in 1..MaxSettingsCalls : BackendInsertsSettings(c)
  \/ \E c \in 1..MaxSettingsCalls : InsertResumes(c)

SpecReadPaths == ServiceInit /\ [][ReadPathsNext]_vars

SettingsCallIds == 1..MaxSettingsCalls

\* C24: a getUserSettings call that met no row and no backend failure
\* resolves with the defaults, every call that met no backend failure
\* resolves with settings, and the user never has more than one row; once a
\* call has resolved the user has exactly one row as long as nothing
\* deletes it
C24_SettingsCreatedOnce ==
  /\ Len(SettingsOf(userSettings, TheUser)) <= 1
  /\ \A c \in SettingsCallIds :
       settingsCalls[c].pc = "done" /\ ~settingsCalls[c].failed =>
         /\ settingsCalls[c].result = "resolved"
         /\ Len(settingsCalls[c].value) = 1
         /\ settingsCalls[c].first =>
              settingsCalls[c].value = <<DefaultSettings(TheUser)>>
         /\ clearOp.pc = "idle" => Len(SettingsOf(userSettings, TheUser)) = 1

\* C25: a read path whose backend query fails returns an empty or absent
\* result and does not throw
C25_ReadPathsNeverThrow ==
  /\ readPath.fn # "none" /\ ~readPath.ok =>
       /\ readPath.outcome = "returned"
       /\ readPath.fn # "hasUserSeenTutorial" =>
            readPath.value \in {"empty", "absent"}
  /\ \A c \in SettingsCallIds :
       settingsCalls[c].pc = "done" /\ settingsCalls[c].failed =>
         settingsCalls[c].result = "resolved"

\* C26: when clearAllUserData resolves the user has no row left in the three
\* tables, and it rejects when a deletion failed
C26_ClearRemovesEverything ==
  [][ clearOp.pc # "done" /\ clearOp'.pc = "done" =>
        /\ clearOp'.failed # {} => clearOp'.result = "rejected"
        /\ clearOp'.result = "resolved" =>
             /\ hasSeenTutorial' = "norow"
             /\ SettingsOf(userSettings', user) = << >>
             /\ { r \in db' : r.user_id = user } = {} ]_vars

\* the read paths that answer a failed query with a value
SwallowingReadPaths == {"getDailyRecords", "hasUserSeenTutorial"}

\* C25 (amended): when the backend query fails, getDailyRecords returns []
\* and hasUserSeenTutorial returns true, while getDailyRecordByDate,
\* getUserProfile and getUserSettings throw the failure to their caller
C25_OnlyListAndFlagSwallow ==
  /\ readPath.fn # "none" /\ ~readPath.ok =>
       /\ readPath.fn = "getDailyRecords" =>
            readPath.outcome = "returned" /\ readPath.value = "empty"
       /\ readPath.fn = "hasUserSeenTutorial" =>
            readPath.outcome = "returned" /\ readPath.value = "true"
       /\ readPath.fn \notin SwallowingReadPaths => readPath.outcome = "threw"
  /\ \A c \in SettingsCallIds :
       settingsCalls[c].pc = "done" /\ settingsCalls[c].failed =>
         settingsCalls[c].result = "rejected"

\* a failed getDailyRecords has returned [] although the user has rows, and
\* a getUserSettings call whose query failed has rejected
C25_Witness ==
  /\ readPath.fn = "getDailyRecords"
  /\ ~readPath.ok
  /\ readPath.outcome = "returned"
  /\ db # {}
  /\ \E c \in SettingsCallIds :
       settingsCalls[c].pc = "done" /\ settingsCalls[c].failed

----------------------------------------------------------------------------
(* Re-fetches of the record store: subscription and refreshRecords *)

\* refreshRecords of FirebaseRecordsProvider is called: loading is set and
\* getDailyRecords is sent; its result reaches the same four state updates
\* as the subscription callback (DeliverFetch), whether or not the
\* subscription still exists.  getDailyRecords never throws, so the catch
\* block of refreshRecords is never entered.
CallRefreshRecords ==
  /\ impl = "provider"
  /\ user # NoUser
  /\ Len(fetches) < MaxFetches
  /\ loading' = TRUE
  /\ \E ok \in BOOLEAN :
       fetches' = Append(fetches,
                         [Snapshot(getDailyRecords(db, user, ok))
                            EXCEPT !.failed = ~ok])
  /\ UNCHANGED <<records, error, syncStatus>>
  /\ UNCHANGED <<db, nextId, calls, toFetch>>
  /\ UNCHANGED clockVars
  /\ UNCHANGED opVars
  /\ UNCHANGED tutorialVars
  /\ UNCHANGED serviceVars
  /\ UNCHANGED authVars
  /\ UNCHANGED statsVars

\* the store after its initial snapshot; records are deleted, the change
\* events are followed by re-fetches, and the provider is asked to refresh
RefetchNext ==
  \/ CallRefreshRecords
  \/ StartFetch
  \/ DeliverFetch
  \/ \E o \in 1..MaxOps : CallDeleteRecord(o)
  \/ \E o \in 1..MaxOps : BackendDelete(o)
  \/ \E o \in 1..MaxOps : DeleteResumes(o)

SpecRefetch == StoreInit /\ [][RefetchNext]_vars

\* C27: a re-fetch (initial, realtime or refreshRecords) that fails leaves
\* records unchanged, does not set syncStatus to 'synced' and does not clear
\* the error, so that records always are a set the backend held.
C27_FailedRefetchKeepsRecords ==
  [][\A i \in DOMAIN fetches :
       Delivered(i) /\ fetches[i].failed =>
         /\ records' = records
         /\ syncStatus' = "synced" => syncStatus = "synced"
         /\ error' = "null" => error = "null"]_vars

----------------------------------------------------------------------------
(* Reads after a write (SpecReads) *)

\* this step is a getRecordByDate call that returned a record
ReadReturnsRecord == lastRead' # lastRead /\ lastRead'.value # << >>

\* C28: once updateRecord or deleteRecord has resolved for a record, a
\* getRecordByDate on that record's date that returns the record returns it
\* as the backend holds it: with the updated values, and not at all after
\* the delete.
C28_ReadReflectsWrite ==
  [][\A o \in OpIds :
       /\ ReadReturnsRecord
       /\ ops[o].kind \in {"update", "delete"}
       /\ ops[o].result = "resolved"
       /\ lastRead'.value[1].id = ops[o].target
       => lastRead'.value[1] \in db]_vars

----------------------------------------------------------------------------
(* Ranges of the statistics (SpecStats) *)

\* a fraction lies in lo..hi
RatioWithin(q, lo, hi) ==
  q.den > 0 /\ lo * q.den <= q.num /\ q.num <= hi * q.den

\* C29: for every record collection with at most one record per date,
\* completionRate of both hooks lies in 0..100 and completedDays of
\* useMonthlyProgress does not exceed totalDays.
C29_RateWithinPercent ==
  /\ statsFresh => RatioWithin(stats.completionRate, 0, 100)
  /\ progressFresh =>
       /\ RatioWithin(progress.completionRate, 0, 100)
       /\ progress.completedDays <= progress.totalDays

----------------------------------------------------------------------------
(* FirebaseAuthProvider *)

\* the variables no FirebaseAuthProvider step touches
UNCHANGED_ByAuth ==
  /\ UNCHANGED <<now, tz>>
  /\ UNCHANGED storeVars
  /\ UNCHANGED statsVars
  /\ UNCHANGED backendVars
  /\ UNCHANGED opVars
  /\ UNCHANGED tutorialVars
  /\ UNCHANGED serviceVars

\* the user_profiles row getUserProfile returns for u
ProfileOf(u) == [user_id |-> u, has_seen_tutorial |-> hasSeenTutorial]

\* setUser(null); setUserProfile(null); setIsAuthenticated(false)
SetSignedOut ==
  /\ user' = NoUser
  /\ userProfile' = << >>
  /\ isAuthenticated' = FALSE

\* operation a is the next one to start
NextAuthOp(a) ==
  /\ authOps[a].pc = "idle"
  /\ \A b \in 1..(a - 1) : authOps[b].pc # "idle"

\* the handler's catch block followed by finally
HandlerFails(a) ==
  /\ authError' = "Authentication error occurred"
  /\ SetSignedOut
  /\ authLoading' = FALSE
  /\ authOps' = [authOps EXCEPT ![a].pc = "done", ![a].failed = TRUE]

\* onAuthStateChange fires with a session: the handler runs up to
\* `await AuthService.saveUser(authUser)`
SignInEvent(a) ==
  /\ NextAuthOp(a)
  /\ authLoading' = TRUE
  /\ authError' = "null"
  /\ user' = TheUser
  /\ isAuthenticated' = TRUE
  /\ authOps' = [authOps EXCEPT ![a].kind = "signedIn", ![a].pc = "saving"]
  /\ UNCHANGED userProfile
  /\ UNCHANGED_ByAuth

\* saveUser returns or throws; on success getUserProfile is sent
SaveUserReturns(a) ==
  /\ authOps[a].pc = "saving"
  /\ \E ok \in BOOLEAN :
       IF ok
       THEN /\ authOps' = [authOps EXCEPT ![a].pc = "loadingProfile"]
            /\ UNCHANGED <<user, userProfile, isAuthenticated, authLoading,
                           authError>>
       ELSE HandlerFails(a)
  /\ UNCHANGED_ByAuth

\* the backend answers getUserProfile(session.user.id)
BackendReadsProfile(a) ==
  /\ authOps[a].pc = "loadingProfile"
  /\ \E ok \in BOOLEAN :
       authOps' = [authOps EXCEPT
                     ![a].pc = "profileReplied",
                     ![a].reply = getUserProfile(hasSeenTutorial, ok)]
  /\ UNCHANGED <<user, userProfile, isAuthenticated, authLoading, authError>>
  /\ UNCHANGED_ByAuth

\* the handler resumes after getUserProfile: setUserProfile(profile), then
\* `await checkAndMigrateLocalData(...)`; a thrown error enters the catch
ProfileLoaded(a) ==
  /\ authOps[a].pc = "profileReplied"
  /\ IF authOps[a].reply = "error"
     THEN HandlerFails(a)
     ELSE /\ userProfile' = IF authOps[a].reply = "found"
                            THEN <<ProfileOf(TheUser)>> ELSE << >>
          /\ authOps' = [authOps EXCEPT ![a].pc = "migrating"]
          /\ UNCHANGED <<user, isAuthenticated, authLoading, authError>>
  /\ UNCHANGED_ByAuth

\* checkAndMigrateLocalData returns (it catches whatever it meets); finally
MigrationChecked(a) ==
  /\ authOps[a].pc = "migrating"
  /\ authLoading' = FALSE
  /\ authOps' = [authOps EXCEPT ![a].pc = "done"]
  /\ UNCHANGED <<user, userProfile, isAuthenticated, authError>>
  /\ UNCHANGED_ByAuth

\* onAuthStateChange fires without a session: the handler runs up to
\* `await AuthService.clearAllData()`
SignOutEvent(a) ==
  /\ NextAuthOp(a)
  /\ authLoading' = TRUE
  /\ authError' = "null"
  /\ SetSignedOut
  /\ authOps' = [authOps EXCEPT ![a].kind = "signedOut", ![a].pc = "clearing"]
  /\ UNCHANGED_ByAuth

\* clearAllData returns or throws (caught inside the branch); finally
LocalDataCleared(a) ==
  /\ authOps[a].pc = "clearing"
  /\ \E ok \in BOOLEAN :
       authOps' = [authOps EXCEPT ![a].pc = "done",
                                  ![a].reply = IF ok THEN "ok" ELSE "error"]
  /\ authLoading' = FALSE
  /\ UNCHANGED <<user, userProfile, isAuthenticated, authError>>
  /\ UNCHANGED_ByAuth

\* login(email, password) is called
CallLogin(a) ==
  /\ NextAuthOp(a)
  /\ authLoading' = TRUE
  /\ authError' = "null"
  /\ authOps' = [authOps EXCEPT ![a].kind = "login", ![a].pc = "loggingIn"]
  /\ UNCHANGED <<user, userProfile, isAuthenticated>>
  /\ UNCHANGED_ByAuth

\* loginUser returns or throws: login returns true, or sets the error and
\* throws; the signed-in state itself comes with the SIGNED_IN event
LoginReturns(a) ==
  /\ authOps[a].pc = "loggingIn"
  /\ \E ok \in BOOLEAN :
       /\ authError' = IF ok THEN authError ELSE "Login failed. Please check your credentials."
       /\ authOps' = [authOps EXCEPT ![a].pc = "done", ![a].failed = ~ok,
                                     ![a].reply = IF ok THEN "ok" ELSE "error"]
  /\ authLoading' = FALSE
  /\ UNCHANGED <<user, userProfile, isAuthenticated>>
  /\ UNCHANGED_ByAuth

\* logout() is called
CallLogout(a) ==
  /\ NextAuthOp(a)
  /\ authLoading' = TRUE
  /\ authOps' = [authOps EXCEPT ![a].kind = "logout", ![a].pc = "loggingOut"]
  /\ UNCHANGED <<user, userProfile, isAuthenticated, authError>>
  /\ UNCHANGED_ByAuth

\* AuthService.logout() returns or throws: both branches clear the state
LogoutReturns(a) ==
  /\ authOps[a].pc = "loggingOut"
  /\ \E ok \in BOOLEAN :
       authOps' = [authOps EXCEPT ![a].pc = "done", ![a].failed = ~ok,
                                  ![a].reply = IF ok THEN "ok" ELSE "error"]
  /\ SetSignedOut
  /\ authError' = "null"
  /\ authLoading' = FALSE
  /\ UNCHANGED_ByAuth

\* a storage event with key 'logout' from another tab
handleCrossTabLogout ==
  /\ SetSignedOut
  /\ authError' = "null"
  /\ UNCHANGED <<authLoading, authOps>>
  /\ UNCHANGED_ByAuth

\* the provider as constructed; the user may or may not have a profile row
AuthInit ==
  /\ tz = 0
  /\ now = LocalInstant(Today, 10, tz)
  /\ user = NoUser
  /\ records = << >>
  /\ loading = FALSE
  /\ error = "null"
  /\ syncStatus = "synced"
  /\ stats = InitialStats
  /\ statsFresh = FALSE
  /\ progress = InitialProgress
  /\ progressFresh = FALSE
  /\ BackendIdle
  /\ OpsIdle
  /\ showTutorial = FALSE
  /\ tutorialLoading = TRUE
  /\ hasSeenTutorial \in InitialFlags
  /\ tutorialOps = [k \in 1..MaxTutorialOps |-> IdleTutorialOp]
  /\ tutorialDone = FALSE
  /\ ServiceIdle
  /\ AuthIdle

AuthNext ==
  \/ \E a \in 1..MaxAuthOps : SignInEvent(a)
  \/ \E a \in 1..MaxAuthOps : SaveUserReturns(a)
  \/ \E a \in 1..MaxAuthOps : BackendReadsProfile(a)
  \/ \E a \in 1..MaxAuthOps : ProfileLoaded(a)
  \/ \E a \in 1..MaxAuthOps : MigrationChecked(a)
  \/ \E a \in 1..MaxAuthOps : SignOutEvent(a)
  \/ \E a \in 1..MaxAuthOps : LocalDataCleared(a)
  \/ \E a \in 1..MaxAuthOps : CallLogin(a)
  \/ \E a \in 1..MaxAuthOps : LoginReturns(a)
  \/ \E a \in 1..MaxAuthOps : CallLogout(a)
  \/ \E a \in 1..MaxAuthOps : LogoutReturns(a)
  \/ handleCrossTabLogout

SpecAuth == AuthInit /\ [][AuthNext]_vars

AuthOpIds == 1..MaxAuthOps

\* isAuthenticated is true exactly when user is non-null, and userProfile
\* is null whenever user is null
AuthStateConsistent ==
  /\ isAuthenticated <=> user # NoUser
  /\ user = NoUser => userProfile = << >>

\* this step ends the handling of a sign-in event, or a logout, one of whose
\* awaited steps failed
FailedAuthOpEnds(a) ==
  /\ authOps[a].pc # "done"
  /\ authOps'[a].pc = "done"
  /\ authOps'[a].failed
  /\ authOps'[a].kind \in {"signedIn", "logout"}

\* C30: after every auth-state-change, login, logout or cross-tab logout
\* step the provider's state is consistent (AuthStateConsistent), and when
\* a step of handling a sign-in event or the backend logout fails, the
\* provider ends signed out with loading = false.
C30_AuthStateConsistent ==
  [][ /\ AuthStateConsistent'
      /\ \A a \in AuthOpIds :
           FailedAuthOpEnds(a) =>
             /\ user' = NoUser
             /\ userProfile' = << >>
             /\ ~isAuthenticated'
             /\ ~authLoading' ]_vars
====
